---- MODULE Spec2Model ----
(***************************************************************************)
(* A model of the lettersmith document pipeline: the document record, the  *)
(* pull-based stream combinators (dedupe, sorted_by, most_recent), the     *)
(* permalink templater and the taxonomy index with its related lookup.     *)
(*                                                                         *)
(* Strings are TLA+ strings read character by character with SubSeq; an    *)
(* Option<T> is a sequence of length 0 (None) or 1 (Some).                 *)
(***************************************************************************)
EXTENDS Integers, Sequences, FiniteSets, TLC

VARIABLES
    source,     \* the documents the run was started with
    upstream,   \* what the stage's upstream iterator has not yet yielded
    stage,      \* the combinator installed on the stream
    params,     \* the arguments it was called with
    buffer,     \* the Vec a collecting stage holds and has not yet yielded
    seen,       \* dedupe's HashSet of id_paths
    emitted,    \* the documents the consumer has pulled out of the stage
    tax_index,  \* the taxonomy index, term -> Vec<Stub>
    union,      \* the result of the last get_union_for_index_keys
    rendered,   \* the result of the last call of a pure function on text
    slug_index, \* the wikilink index, title slug -> Doc
    stderr      \* the lines written to stderr

vars == <<source, upstream, stage, params, buffer, seen, emitted, tax_index, union, rendered,
          slug_index, stderr>>

(***************************************************************************)
(* Bounds of the model.                                                    *)
(***************************************************************************)
\* longest input stream
MaxLen == 3
\* longest list of terms handed to the union lookup
MaxKeys == 2
\* longest stream of documents sent through a chain of transforms
MaxDocs == 2
\* longest chain of transforms
MaxChain == 2
\* Longest string handed to to_slug.
MaxSlugLen == 4

(***************************************************************************)
(* Characters and strings                                                  *)
(***************************************************************************)
None == <<>>
Some(v) == <<v>>

\* The characters the model uses, in ascending byte order.
Alphabet == " !-./0123456789:ABCDEFGHIJKLMNOPQRSTUVWXYZ_abcdefghijklmnopqrstuvwxyz{|}"

CharAt(s, i) == SubSeq(s, i, i)

\* Position of a character in byte order.
Code(c) == CHOOSE i \in 1..Len(Alphabet) : CharAt(Alphabet, i) = c

Min(a, b) == IF a <= b THEN a ELSE b

\* Ordering of &str / OsStr: bytewise lexicographic. -1, 0, 1 for Less, Equal, Greater.
RECURSIVE StrCmpFrom(_, _, _)
StrCmpFrom(a, b, i) ==
    IF i > Len(a) /\ i > Len(b) THEN 0
    ELSE IF i > Len(a) THEN -1
    ELSE IF i > Len(b) THEN 1
    ELSE IF CharAt(a, i) = CharAt(b, i) THEN StrCmpFrom(a, b, i + 1)
    ELSE IF Code(CharAt(a, i)) < Code(CharAt(b, i)) THEN -1 ELSE 1

StrCmp(a, b) == StrCmpFrom(a, b, 1)

\* str::contains
Contains(s, pat) ==
    \E i \in 1..(Len(s) - Len(pat) + 1) : SubSeq(s, i, i + Len(pat) - 1) = pat

StartsWith(s, pat) == Len(pat) <= Len(s) /\ SubSeq(s, 1, Len(pat)) = pat

\* Index of the first occurrence of character c in s at or after i, 0 when none.
IndexFrom(s, c, i) ==
    IF \E j \in i..Len(s) : CharAt(s, j) = c
    THEN CHOOSE j \in i..Len(s) : CharAt(s, j) = c /\ \A k \in i..(j - 1) : CharAt(s, k) # c
    ELSE 0

\* str::replace: every non-overlapping match of pat, scanning left to right.
RECURSIVE ReplaceFrom(_, _, _, _)
ReplaceFrom(s, pat, val, i) ==
    IF i > Len(s) THEN ""
    ELSE IF i + Len(pat) - 1 <= Len(s) /\ SubSeq(s, i, i + Len(pat) - 1) = pat
         THEN val \o ReplaceFrom(s, pat, val, i + Len(pat))
    ELSE CharAt(s, i) \o ReplaceFrom(s, pat, val, i + 1)

Replace(s, pat, val) == ReplaceFrom(s, pat, val, 1)

Whitespace == {" ", "\n"}

\* str::trim
RECURSIVE TrimStart(_)
TrimStart(s) ==
    IF s # "" /\ CharAt(s, 1) \in Whitespace THEN TrimStart(SubSeq(s, 2, Len(s))) ELSE s

RECURSIVE TrimEnd(_)
TrimEnd(s) ==
    IF s # "" /\ CharAt(s, Len(s)) \in Whitespace THEN TrimEnd(SubSeq(s, 1, Len(s) - 1)) ELSE s

Trim(s) == TrimEnd(TrimStart(s))

Upper == "ABCDEFGHIJKLMNOPQRSTUVWXYZ"
Lower == "abcdefghijklmnopqrstuvwxyz"

LowerChar(c) ==
    IF \E i \in 1..Len(Upper) : CharAt(Upper, i) = c
    THEN CharAt(Lower, CHOOSE i \in 1..Len(Upper) : CharAt(Upper, i) = c)
    ELSE c

\* str::to_lowercase
RECURSIVE ToLowercase(_)
ToLowercase(s) ==
    IF s = "" THEN "" ELSE LowerChar(CharAt(s, 1)) \o ToLowercase(SubSeq(s, 2, Len(s)))

\* text.rs NON_SLUG_CHARS: the character class [](){}<>:,;?!^&%$#@'"|*~
NON_SLUG_CHARS ==
    {"[", "]", "(", ")", "{", "}", "<", ">", ":", ",", ";", "?", "!", "^",
     "&", "%", "$", "#", "@", "'", "\"", "|", "*", "~"}

\* A filter that keeps nothing but letters, digits and dashes.
RECURSIVE remove_non_alphanumeric(_)
remove_non_alphanumeric(s) ==
    IF s = "" THEN ""
    ELSE (IF Contains("abcdefghijklmnopqrstuvwxyzABCDEFGHIJKLMNOPQRSTUVWXYZ0123456789-",
                      CharAt(s, 1))
          THEN CharAt(s, 1) ELSE "")
         \o remove_non_alphanumeric(SubSeq(s, 2, Len(s)))

RECURSIVE remove_non_slug_chars(_)
remove_non_slug_chars(s) ==
    IF s = "" THEN ""
    ELSE (IF CharAt(s, 1) \in NON_SLUG_CHARS THEN "" ELSE CharAt(s, 1))
         \o remove_non_slug_chars(SubSeq(s, 2, Len(s)))

to_slug(s) == remove_non_slug_chars(Replace(ToLowercase(Trim(s)), " ", "-"))

to_tag(term) == remove_non_slug_chars(Replace(ToLowercase(Trim(term)), " ", "_"))

(***************************************************************************)
(* Paths (std::path::Path on relative paths whose components are separated *)
(* by single "/" characters and are never "." or "..")                     *)
(***************************************************************************)
\* Index of the last occurrence of character c in s, 0 when there is none.
LastIndexOf(s, c) ==
    IF \E i \in 1..Len(s) : CharAt(s, i) = c
    THEN CHOOSE i \in 1..Len(s) :
            CharAt(s, i) = c /\ \A j \in (i + 1)..Len(s) : CharAt(s, j) # c
    ELSE 0

\* Path::components
RECURSIVE Components(_)
Components(p) ==
    IF p = "" THEN <<>>
    ELSE LET i == LastIndexOf(p, "/")
         IN IF i = 0 THEN <<p>>
            ELSE IF i = Len(p) THEN Components(SubSeq(p, 1, i - 1))
            ELSE Append(Components(SubSeq(p, 1, i - 1)), SubSeq(p, i + 1, Len(p)))

\* Path::file_name
file_name(p) ==
    LET cs == Components(p) IN IF cs = <<>> THEN None ELSE Some(cs[Len(cs)])

\* Path::parent
parent(p) ==
    LET i == LastIndexOf(p, "/")
    IN IF Components(p) = <<>> THEN None
       ELSE IF i = 0 THEN Some("")
       ELSE Some(SubSeq(p, 1, i - 1))

\* std::path rsplit_file_at_dot: <<before, after>> of the last dot of a file name.
rsplit_file_at_dot(name) ==
    LET i == LastIndexOf(name, ".")
    IN IF i = 0 THEN <<None, Some(name)>>
       ELSE IF i = 1 THEN <<Some(name), None>>
       ELSE <<Some(SubSeq(name, 1, i - 1)), Some(SubSeq(name, i + 1, Len(name)))>>

\* Path::file_stem: before.or(after)
file_stem(p) ==
    IF file_name(p) = None THEN None
    ELSE LET r == rsplit_file_at_dot(file_name(p)[1])
         IN IF r[1] # None THEN r[1] ELSE r[2]

\* Path::extension: before.and(after)
extension(p) ==
    IF file_name(p) = None THEN None
    ELSE LET r == rsplit_file_at_dot(file_name(p)[1])
         IN IF r[1] # None THEN r[2] ELSE None

\* Ord for Path: the components compared lexicographically.
RECURSIVE CompsCmp(_, _)
CompsCmp(a, b) ==
    IF a = <<>> /\ b = <<>> THEN 0
    ELSE IF a = <<>> THEN -1
    ELSE IF b = <<>> THEN 1
    ELSE IF StrCmp(Head(a), Head(b)) # 0 THEN StrCmp(Head(a), Head(b))
    ELSE CompsCmp(Tail(a), Tail(b))

PathCmp(a, b) == CompsCmp(Components(a), Components(b))

(***************************************************************************)
(* Timestamps: DateTime<Utc> as <<year, month, day>>                       *)
(***************************************************************************)
\* DateTime::default(), the Unix epoch
EpochDate == <<1970, 1, 1>>

DateCmp(a, b) ==
    IF a[1] # b[1] THEN (IF a[1] < b[1] THEN -1 ELSE 1)
    ELSE IF a[2] # b[2] THEN (IF a[2] < b[2] THEN -1 ELSE 1)
    ELSE IF a[3] # b[3] THEN (IF a[3] < b[3] THEN -1 ELSE 1)
    ELSE 0

Digit(d) == CharAt("0123456789", d + 1)

\* A number zero-padded to w digits.
RECURSIVE Pad(_, _)
Pad(n, w) == IF w = 0 THEN "" ELSE Pad(n \div 10, w - 1) \o Digit(n % 10)

\* str::split on a one-character separator
RECURSIVE Split(_, _)
Split(s, sep) ==
    IF IndexFrom(s, sep, 1) = 0 THEN <<s>>
    ELSE <<SubSeq(s, 1, IndexFrom(s, sep, 1) - 1)>>
         \o Split(SubSeq(s, IndexFrom(s, sep, 1) + 1, Len(s)), sep)

IsDigits(s) == s # "" /\ \A i \in 1..Len(s) : Contains("0123456789", CharAt(s, i))

RECURSIVE ToInt(_)
ToInt(s) ==
    IF s = "" THEN 0
    ELSE 10 * ToInt(SubSeq(s, 1, Len(s) - 1))
         + (CHOOSE d \in 0..9 : Digit(d) = CharAt(s, Len(s)))

\* chrono format specifiers %Y, %y, %m, %d
FormatY(date) == Pad(date[1], 4)
Formaty(date) == Pad(date[1] % 100, 2)
Formatm(date) == Pad(date[2], 2)
Formatd(date) == Pad(date[3], 2)

\* Serialized form of a timestamp
DateStr(date) == FormatY(date) \o "-" \o Formatm(date) \o "-" \o Formatd(date) \o "T00:00:00Z"

(***************************************************************************)
(* serde_json::Value                                                       *)
(***************************************************************************)
JNull == [t |-> "null"]
JStr(s) == [t |-> "str", v |-> s]
JNum(n) == [t |-> "num", v |-> n]
JArr(seq) == [t |-> "arr", v |-> seq]
JObj(f) == [t |-> "obj", v |-> f]
JBool(b) == [t |-> "bool", v |-> b]
EmptyMap == [k \in {} |-> JNull]

\* Value::get(&str)
JGet(value, key) ==
    IF value.t = "obj" /\ key \in DOMAIN value.v THEN Some(value.v[key]) ELSE None

\* Value::as_str
as_str(value) == IF value.t = "str" THEN Some(value.v) ELSE None

\* json::merge (RFC 7396)
RECURSIVE merge(_, _)
merge(a, b) ==
    IF a.t = "obj" /\ b.t = "obj"
    THEN LET removed == {k \in DOMAIN b.v : b.v[k].t = "null"}
             patched == DOMAIN b.v \ removed
         IN JObj([k \in (DOMAIN a.v \ removed) \cup patched |->
                    IF k \in patched
                    THEN merge(IF k \in DOMAIN a.v THEN a.v[k] ELSE JNull, b.v[k])
                    ELSE a.v[k]])
    ELSE b

(***************************************************************************)
(* Doc and Stub                                                            *)
(***************************************************************************)
\* Doc::default()
DefaultDoc ==
    [id_path |-> "", output_path |-> "", input_path |-> None, template_path |-> None,
     created |-> EpochDate, modified |-> EpochDate, title |-> "", summary |-> "",
     content |-> "", meta |-> JNull]

\* Doc::draft
draft(id_path) == [DefaultDoc EXCEPT !.id_path = id_path, !.output_path = id_path]

set_output_path(doc, output_path) == [doc EXCEPT !.output_path = output_path]
set_created(doc, created) == [doc EXCEPT !.created = created]
set_modified(doc, modified) == [doc EXCEPT !.modified = modified]
set_title(doc, title) == [doc EXCEPT !.title = title]
set_meta(doc, meta) == [doc EXCEPT !.meta = meta]
merge_meta(doc, patch) == [doc EXCEPT !.meta = merge(doc.meta, patch)]

\* str::split_whitespace
RECURSIVE split_whitespace(_)
split_whitespace(text) ==
    LET t == TrimStart(text)
        n == IF \E i \in 1..Len(t) : CharAt(t, i) \in Whitespace
             THEN (CHOOSE i \in 1..Len(t) :
                      CharAt(t, i) \in Whitespace
                      /\ \A j \in 1..(i - 1) : CharAt(t, j) \notin Whitespace) - 1
             ELSE Len(t)
    IN IF t = "" THEN <<>>
       ELSE <<SubSeq(t, 1, n)>> \o split_whitespace(SubSeq(t, n + 1, Len(t)))

\* [&str]::join
RECURSIVE Join(_, _)
Join(words, sep) ==
    IF words = <<>> THEN ""
    ELSE IF Len(words) = 1 THEN words[1]
    ELSE words[1] \o sep \o Join(Tail(words), sep)

\* text::truncate
truncate(text, max_chars, suffix) ==
    IF Len(Trim(text)) <= max_chars THEN Trim(text)
    ELSE LET words == split_whitespace(SubSeq(text, 1, max_chars - 1))
         IN Join(SubSeq(words, 1, Len(words) - 1), " ") \o suffix

SummaryChars == 280

\* The suffix is the one-character ellipsis, written here in ASCII.
truncate_280(text) == truncate(text, SummaryChars, "...")

\* Doc::summary_280
summary_280(doc) == truncate_280(doc.summary)

\* Stub::from(&Doc)
StubFrom(doc) ==
    [id_path |-> doc.id_path, output_path |-> doc.output_path, created |-> doc.created,
     modified |-> doc.modified, title |-> doc.title, summary |-> summary_280(doc)]

\* Serialize for Stub
StubJson(stub) ==
    JObj([k \in {"id_path", "output_path", "created", "modified", "title", "summary"} |->
            CASE k = "id_path" -> JStr(stub.id_path)
              [] k = "output_path" -> JStr(stub.output_path)
              [] k = "created" -> JStr(DateStr(stub.created))
              [] k = "modified" -> JStr(DateStr(stub.modified))
              [] k = "title" -> JStr(stub.title)
              [] k = "summary" -> JStr(stub.summary)])

\* Vec::dedup: removes consecutive repeated elements.
RECURSIVE dedup(_)
dedup(s) ==
    IF Len(s) <= 1 THEN s
    ELSE IF s[Len(s)] = s[Len(s) - 1] THEN dedup(SubSeq(s, 1, Len(s) - 1))
    ELSE Append(dedup(SubSeq(s, 1, Len(s) - 1)), s[Len(s)])

(***************************************************************************)
(* docs.rs: the stream combinators                                         *)
(***************************************************************************)
SortKeys == {"id_path", "output_path", "created", "modified", "title"}

\* The comparators of Docs::sorted_by, one per SortKey.
KeyCmp(key, a, b) ==
    CASE key = "id_path" -> PathCmp(a.id_path, b.id_path)
      [] key = "output_path" -> PathCmp(a.output_path, b.output_path)
      [] key = "created" -> DateCmp(a.created, b.created)
      [] key = "modified" -> DateCmp(a.modified, b.modified)
      [] key = "title" -> StrCmp(a.title, b.title)

\* Ordering::reverse when asc is false.
Directed(ord, asc) == IF asc THEN ord ELSE 0 - ord

\* One step of a stable sort: x goes behind every element that is not greater.
RECURSIVE InsertSorted(_, _, _, _)
InsertSorted(sorted, x, key, asc) ==
    IF sorted = <<>> THEN <<x>>
    ELSE IF Directed(KeyCmp(key, sorted[Len(sorted)], x), asc) > 0
         THEN Append(InsertSorted(SubSeq(sorted, 1, Len(sorted) - 1), x, key, asc),
                     sorted[Len(sorted)])
    ELSE Append(sorted, x)

\* Vec::sort_by, a stable sort, under the comparator of the key.
RECURSIVE StableSort(_, _, _)
StableSort(vec, key, asc) ==
    IF vec = <<>> THEN <<>>
    ELSE InsertSorted(StableSort(SubSeq(vec, 1, Len(vec) - 1), key, asc),
                      vec[Len(vec)], key, asc)

Reverse(s) == [i \in 1..Len(s) |-> s[Len(s) + 1 - i]]

\* A sort that sorts ascending and turns the result around for asc = false.
sorted_by_reversing(vec, key, asc) ==
    IF asc THEN StableSort(vec, key, TRUE) ELSE Reverse(StableSort(vec, key, TRUE))

\* A sort that always sorts ascending.
sorted_by_ignoring_asc(vec, key, asc) == StableSort(vec, key, TRUE)

\* docs.rs sorted_by: Vec::sort_by under the directed comparator; the comparator
\* closure is named by its key.
sorted_by(vec, key, asc) == StableSort(vec, key, asc)

\* Docs::sorted_by: collects the stream and sorts it with the key's comparator.
DocsSortedBy(docs, key, asc) == sorted_by(docs, key, asc)

\* most_recent that sorts oldest first.
most_recent_oldest_first(docs) == DocsSortedBy(docs, "created", TRUE)

\* Docs::most_recent: the vector its take(n) reads from.
most_recent_sorted(docs) == DocsSortedBy(docs, "created", FALSE)

\* A filter that lets every document through.
dedupe_keeps_all(seen_paths, doc) == TRUE

\* Docs::dedupe: the filter predicate, HashSet::insert's result (true when new).
dedupe_keeps(seen_paths, doc) == doc.id_path \notin seen_paths

\* glob::Pattern::matches with the default MatchOptions, for patterns of
\* literal characters, ? and *: both wildcards match a path separator too.
RECURSIVE glob_matches(_, _)
glob_matches(pattern, text) ==
    IF pattern = "" THEN text = ""
    ELSE IF CharAt(pattern, 1) = "*"
         THEN \/ glob_matches(SubSeq(pattern, 2, Len(pattern)), text)
              \/ text # "" /\ glob_matches(pattern, SubSeq(text, 2, Len(text)))
    ELSE /\ text # ""
         /\ CharAt(pattern, 1) \in {"?", CharAt(text, 1)}
         /\ glob_matches(SubSeq(pattern, 2, Len(pattern)), SubSeq(text, 2, Len(text)))

\* Docs::remove_with_id_path: the filter predicate, PathBuf != Path.
remove_with_id_path_keeps(doc, id_path) == Components(doc.id_path) # Components(id_path)

\* Docs::filter_matching: the filter predicate.
filter_matching_keeps(doc, glob_pattern) == glob_matches(glob_pattern, doc.id_path)

\* A draft filter that looks at the start of the whole id_path.
remove_drafts_keeps_by_path(doc) == ~StartsWith(doc.id_path, "_")

\* Docs::remove_drafts: the filter predicate.
remove_drafts_keeps(doc) == ~StartsWith(file_name(doc.id_path)[1], "_")

\* Docs::remove_index: the filter predicate.
remove_index_keeps(doc) == file_stem(doc.id_path) # Some("index")

\* The predicate of the filter combinator `rule` with argument arg.
filter_keeps(rule, arg, doc) ==
    CASE rule = "remove_with_id_path" -> remove_with_id_path_keeps(doc, arg)
      [] rule = "filter_matching" -> filter_matching_keeps(doc, arg)
      [] rule = "remove_drafts" -> remove_drafts_keeps(doc)
      [] rule = "remove_index" -> remove_index_keeps(doc)

\* Filter::next: pulls upstream until a document passes the predicate.
RECURSIVE FilterPull(_, _, _)
FilterPull(rule, arg, docs) ==
    IF docs = <<>> THEN [item |-> None, rest |-> <<>>]
    ELSE IF filter_keeps(rule, arg, Head(docs))
         THEN [item |-> Some(Head(docs)), rest |-> Tail(docs)]
    ELSE FilterPull(rule, arg, Tail(docs))

(***************************************************************************)
(* token_template.rs and permalink.rs                                      *)
(***************************************************************************)
EmptyParts == [k \in {} |-> ""]

\* render with the parts visited in the given order: one str::replace per part.
RECURSIVE RenderIn(_, _, _)
RenderIn(template, parts, order) ==
    IF order = <<>> THEN template
    ELSE RenderIn(Replace(template, ":" \o Head(order), parts[Head(order)]), parts,
                  Tail(order))

\* token_template::render, for one iteration order of the HashMap.
render(template, parts, order) == RenderIn(template, parts, order)

RECURSIVE Perms(_)
Perms(S) ==
    IF S = {} THEN {<<>>}
    ELSE UNION {{<<k>> \o p : p \in Perms(S \ {k})} : k \in S}

RECURSIVE SetToSeq(_)
SetToSeq(S) ==
    IF S = {} THEN <<>> ELSE LET k == CHOOSE k \in S : TRUE IN <<k>> \o SetToSeq(S \ {k})

\* The keys whose token can come to match while the template is rendered. When
\* no value holds a ":" and the template holds no "::", the character behind
\* every ":" stays what the template has there, so a key whose first character
\* follows no ":" of the template never matches, wherever it is visited.
LiveKeys(template, parts) ==
    IF (\A k \in DOMAIN parts : ~Contains(parts[k], ":")) /\ ~Contains(template, "::")
    THEN {k \in DOMAIN parts : Contains(template, ":" \o CharAt(k, 1))}
    ELSE DOMAIN parts

\* The orders in which HashMap iteration can visit the parts: any order. The
\* keys that never match change nothing wherever they come, and come last here.
IterationOrders(template, parts) ==
    LET live == LiveKeys(template, parts)
    IN {p \o SetToSeq(DOMAIN parts \ live) : p \in Perms(live)}

PartKeys == {"name", "stem", "slug", "ext", "parents", "parent", "yyyy", "yy", "mm", "dd"}

\* get_permalink_template_parts that returns the parts found before the first
\* missing component instead of None.
partial_permalink_template_parts(doc) ==
    IF file_name(doc.id_path) = None THEN None
    ELSE Some([k \in {"name", "stem"} |->
                IF k = "name" THEN file_name(doc.id_path)[1] ELSE file_stem(doc.id_path)[1]])

\* Doc::get_permalink_template_parts
get_permalink_template_parts(doc) ==
    LET name == file_name(doc.id_path)
        stem == file_stem(doc.id_path)
        ext == extension(doc.id_path)
        parents == parent(doc.id_path)
        closest == IF parents = None THEN None ELSE file_name(parents[1])
    IN IF name = None \/ stem = None \/ ext = None \/ parents = None \/ closest = None
       THEN None
       ELSE Some([k \in PartKeys |->
                   CASE k = "name" -> name[1]
                     [] k = "stem" -> stem[1]
                     [] k = "slug" -> to_slug(stem[1])
                     [] k = "ext" -> ext[1]
                     [] k = "parents" -> parents[1]
                     [] k = "parent" -> closest[1]
                     [] k = "yyyy" -> FormatY(doc.created)
                     [] k = "yy" -> Formaty(doc.created)
                     [] k = "mm" -> Formatm(doc.created)
                     [] k = "dd" -> Formatd(doc.created)])

\* Option::unwrap_or_default
PermalinkParts(doc) ==
    IF get_permalink_template_parts(doc) = None THEN EmptyParts
    ELSE get_permalink_template_parts(doc)[1]

\* Doc::set_permalink, for one iteration order of its parts.
set_permalink(doc, permalink_template, order) ==
    set_output_path(doc, render(permalink_template, PermalinkParts(doc), order))

(***************************************************************************)
(* tags.rs: the taxonomy index and the related lookup                      *)
(***************************************************************************)
EmptyIndex == [k \in {} |-> <<>>]

\* tag_values.iter().filter_map(|value| value.as_str()).map(|value| to_tag(value))
RECURSIVE TagStrings(_)
TagStrings(tag_values) ==
    IF tag_values = <<>> THEN <<>>
    ELSE (IF as_str(Head(tag_values)) # None THEN <<to_tag(as_str(Head(tag_values))[1])>>
          ELSE <<>>)
         \o TagStrings(Tail(tag_values))

\* Doc::get_meta_taxonomy
get_meta_taxonomy(doc, key) ==
    LET found == JGet(doc.meta, key)
    IN IF found # None /\ found[1].t = "arr"
       THEN Some(dedup(TagStrings(found[1].v)))
       ELSE None

\* An entry that holds only the stub pushed last.
PushEntry_replacing(index, term, stub) ==
    [k \in DOMAIN index \cup {term} |-> IF k = term THEN <<stub>> ELSE index[k]]

\* HashMap::entry(term).or_insert_with(Vec::new).push(stub)
PushEntry(index, term, stub) ==
    [k \in DOMAIN index \cup {term} |->
        IF k = term THEN (IF term \in DOMAIN index THEN Append(index[term], stub) ELSE <<stub>>)
        ELSE index[k]]

\* The inner loop of index_by_taxonomy: one push per string element of the array.
RECURSIVE PushTerms(_, _, _)
PushTerms(index, terms, doc) ==
    IF terms = <<>> THEN index
    ELSE PushTerms(IF as_str(Head(terms)) # None
                   THEN PushEntry(index, to_tag(Head(terms).v), StubFrom(doc))
                   ELSE index,
                   Tail(terms), doc)

RECURSIVE IndexDocs(_, _, _)
IndexDocs(index, docs, key) ==
    IF docs = <<>> THEN index
    ELSE LET found == JGet(Head(docs).meta, key)
         IN IndexDocs(IF found # None /\ found[1].t = "arr"
                      THEN PushTerms(index, found[1].v, Head(docs))
                      ELSE index,
                      Tail(docs), key)

\* TaggedDocs::index_by_taxonomy
index_by_taxonomy(docs, key) == IndexDocs(EmptyIndex, docs, key)

\* keys.iter().flat_map(|key| index.get(key).into_iter().flatten())
RECURSIVE FlatMapBuckets(_, _)
FlatMapBuckets(index, keys) ==
    IF keys = <<>> THEN <<>>
    ELSE (IF Head(keys) \in DOMAIN index THEN index[Head(keys)] ELSE <<>>)
         \o FlatMapBuckets(index, Tail(keys))

\* tags.rs get_union_for_index_keys
get_union_for_index_keys(index, keys) == dedup(FlatMapBuckets(index, keys))

\* Doc::set_meta_related
set_meta_related(doc, related) ==
    merge_meta(doc, JObj([k \in {"related"} |->
                            JArr([i \in 1..Len(related) |-> StubJson(related[i])])]))

\* Doc::set_meta_related_from_taxonomy_index
set_meta_related_from_taxonomy_index(doc, taxonomy_key, taxonomy_index) ==
    LET tags == get_meta_taxonomy(doc, taxonomy_key)
    IN IF tags = None THEN doc
       ELSE LET related == get_union_for_index_keys(taxonomy_index, tags[1])
            IN merge_meta(doc, JObj([k \in {"related"} |->
                                      JArr([i \in 1..Len(related) |-> StubJson(related[i])])]))

\* The parts map of an archive's output path.
ArchiveParts(key, term) ==
    [k \in {"taxonomy", "term"} |-> IF k = "taxonomy" THEN to_slug(key) ELSE to_slug(term)]

\* The Doc built by the closure of generate_taxonomy_archives for one entry of
\* the index, at the time now and for one iteration order of its parts. The
\* struct literal names no summary; the model gives it String::default().
ArchiveDoc(key, term, stubs, output_path_template, template_path, now, order) ==
    LET output_path == render(output_path_template, ArchiveParts(key, term), order)
    IN [id_path |-> output_path, output_path |-> output_path, input_path |-> None,
        template_path |-> template_path, created |-> now, modified |-> now,
        title |-> term, summary |-> "", content |-> "",
        meta |-> JObj([k \in {"items"} |->
                        JArr([i \in 1..Len(stubs) |-> StubJson(stubs[i])])])]

(***************************************************************************)
(* doc.rs: the transforms of one document                                  *)
(***************************************************************************)
\* PathBuf::set_extension: nothing without a file stem; else the path is cut
\* behind the stem of its last component and "." and the extension are added.
PathSetExtension(path, ext) ==
    IF file_stem(path) = None THEN path
    ELSE LET comps == Components(path)
             dir == Join(SubSeq(comps, 1, Len(comps) - 1), "/")
             stem == (IF dir = "" THEN "" ELSE dir \o "/") \o file_stem(path)[1]
         IN IF ext = "" THEN stem ELSE stem \o "." \o ext

\* Doc::set_extension
set_extension(doc, ext) == [doc EXCEPT !.output_path = PathSetExtension(doc.output_path, ext)]

set_content(doc, content) == [doc EXCEPT !.content = content]
set_summary(doc, summary) == [doc EXCEPT !.summary = summary]
set_summary_if_empty(doc, summary) == IF doc.summary = "" THEN set_summary(doc, summary) ELSE doc

\* HTML_REGEX <[^<]+?> tried at position i: the position of the last character
\* of the (shortest) match, 0 when there is no match at i.
HtmlTagEnd(text, i) ==
    LET ends == {j \in (i + 2)..Len(text) :
                    /\ CharAt(text, j) = ">"
                    /\ \A k \in (i + 1)..(j - 1) : CharAt(text, k) # "<"}
    IN IF CharAt(text, i) = "<" /\ ends # {}
       THEN CHOOSE j \in ends : \A k \in ends : j <= k
       ELSE 0

\* html.rs strip_html
RECURSIVE StripHtmlFrom(_, _)
StripHtmlFrom(text, i) ==
    IF i > Len(text) THEN ""
    ELSE IF HtmlTagEnd(text, i) = 0 THEN CharAt(text, i) \o StripHtmlFrom(text, i + 1)
    ELSE StripHtmlFrom(text, HtmlTagEnd(text, i) + 1)

strip_html(html_str) == StripHtmlFrom(html_str, 1)

\* Doc::auto_summary
auto_summary(doc) == set_summary_if_empty(doc, truncate_280(strip_html(doc.content)))

\* Doc::set_template
set_template(doc, template_path) == [doc EXCEPT !.template_path = Some(template_path)]

\* An auto_template that overwrites the template a document has.
auto_template_overwriting(doc) ==
    LET dir == parent(doc.id_path)
        name == IF dir = None THEN None ELSE file_name(dir[1])
    IN set_template(doc, IF name = None THEN "default.html" ELSE name[1] \o ".html")

\* Doc::auto_template
auto_template(doc) ==
    IF doc.template_path = None
    THEN LET dir == parent(doc.id_path)
             name == IF dir = None THEN None ELSE file_name(dir[1])
         IN set_template(doc, IF name = None THEN "default.html" ELSE name[1] \o ".html")
    ELSE doc

\* DateTime<Utc>::from_str on the timestamps the model writes, yyyy-mm-ddT00:00:00Z;
\* None for a string that is not a timestamp.
ParseDate(s) ==
    IF /\ Len(s) = 20
       /\ IsDigits(SubSeq(s, 1, 4)) /\ IsDigits(SubSeq(s, 6, 7)) /\ IsDigits(SubSeq(s, 9, 10))
       /\ CharAt(s, 5) = "-" /\ CharAt(s, 8) = "-"
       /\ SubSeq(s, 11, 20) = "T00:00:00Z"
       /\ ToInt(SubSeq(s, 6, 7)) \in 1..12
       /\ ToInt(SubSeq(s, 9, 10)) \in 1..28
    THEN Some(<<ToInt(SubSeq(s, 1, 4)), ToInt(SubSeq(s, 6, 7)), ToInt(SubSeq(s, 9, 10))>>)
    ELSE None

\* meta.get(key) when it is a string
MetaString(doc, key) ==
    IF JGet(doc.meta, key) # None /\ JGet(doc.meta, key)[1].t = "str"
    THEN Some(JGet(doc.meta, key)[1].v)
    ELSE None

\* An uplift_meta that also takes the permalink for the id_path.
uplift_meta_moving_id(doc) ==
    [doc EXCEPT
        !.title = IF MetaString(doc, "title") # None THEN MetaString(doc, "title")[1] ELSE @,
        !.id_path = IF MetaString(doc, "permalink") # None
                    THEN MetaString(doc, "permalink")[1] ELSE @,
        !.output_path = IF MetaString(doc, "permalink") # None
                        THEN MetaString(doc, "permalink")[1] ELSE @,
        !.template_path = IF MetaString(doc, "template") # None
                          THEN Some(MetaString(doc, "template")[1]) ELSE @]

\* Doc::uplift_meta
uplift_meta(doc) ==
    [doc EXCEPT
        !.title = IF MetaString(doc, "title") # None THEN MetaString(doc, "title")[1] ELSE @,
        !.summary = IF MetaString(doc, "summary") # None
                    THEN MetaString(doc, "summary")[1] ELSE @,
        !.created = IF MetaString(doc, "created") # None
                       /\ ParseDate(MetaString(doc, "created")[1]) # None
                    THEN ParseDate(MetaString(doc, "created")[1])[1] ELSE @,
        !.modified = IF MetaString(doc, "modified") # None
                        /\ ParseDate(MetaString(doc, "modified")[1]) # None
                     THEN ParseDate(MetaString(doc, "modified")[1])[1] ELSE @,
        !.output_path = IF MetaString(doc, "permalink") # None
                        THEN MetaString(doc, "permalink")[1] ELSE @,
        !.template_path = IF MetaString(doc, "template") # None
                          THEN Some(MetaString(doc, "template")[1]) ELSE @]

\* Result<T, E>
Ok(value) == [ok |-> TRUE, value |-> value]
Err(kind) == [ok |-> FALSE, err |-> kind]

\* The files of the site: path -> content and the times of the file's metadata.
Files ==
    [path \in {"posts/test.md", "notes/list.md", "about.md"} |->
        CASE path = "posts/test.md" ->
               [content |-> "---\ntitle: Meta Title\ntemplate: custom.html\n---\nBody [[A]]",
                created |-> <<2023, 5, 15>>, modified |-> <<2024, 1, 1>>]
          [] path = "notes/list.md" ->
               [content |-> "---\n- a\n- b\n---\nText",
                created |-> <<2022, 12, 31>>, modified |-> <<2022, 12, 31>>]
          [] path = "about.md" ->
               [content |-> "Plain <b>text</b>.",
                created |-> <<2024, 2, 29>>, modified |-> <<2024, 2, 29>>]]

\* Doc::read: an I/O error for a path that is no file, else the document.
read(path) ==
    IF path \notin DOMAIN Files THEN Err("io")
    ELSE Ok([id_path |-> path, output_path |-> path, input_path |-> Some(path),
             template_path |-> None, created |-> Files[path].created,
             modified |-> Files[path].modified, title |-> file_stem(path)[1],
             summary |-> "", content |-> Files[path].content, meta |-> JNull])

\* The line dump_errors_to_stderr prints for an error.
ErrorLine(result) == "Error: " \o result.err

\* One next() of dump_errors_to_stderr(docs::read(paths)), a stop at the first
\* error put in the place of the skip.
RECURSIVE dump_errors_to_stderr_fused(_)
dump_errors_to_stderr_fused(paths) ==
    IF paths = <<>> THEN [errors |-> <<>>, item |-> None, rest |-> <<>>]
    ELSE LET result == read(Head(paths))
         IN IF result.ok
            THEN [errors |-> <<>>, item |-> Some(result.value), rest |-> Tail(paths)]
            ELSE [errors |-> <<ErrorLine(result)>>, item |-> None, rest |-> <<>>]

\* One next() of dump_errors_to_stderr(docs::read(paths)): filter_map reads on
\* until its closure gives Some; every Err on the way prints a line. The lines
\* printed, the item returned and the paths left.
RECURSIVE dump_errors_to_stderr(_)
dump_errors_to_stderr(paths) ==
    IF paths = <<>> THEN [errors |-> <<>>, item |-> None, rest |-> <<>>]
    ELSE LET result == read(Head(paths))
         IN IF result.ok
            THEN [errors |-> <<>>, item |-> Some(result.value), rest |-> Tail(paths)]
            ELSE [dump_errors_to_stderr(Tail(paths)) EXCEPT
                     !.errors = <<ErrorLine(result)>> \o @]

\* One next() of panic_at_first_error(docs::read(paths)): a lazy map that
\* unwraps the result it pulls and panics with the error when it is an Err. The
\* item returned, the error of the panic and the paths left.
panic_at_first_error(paths) ==
    IF paths = <<>> THEN [item |-> None, panic |-> None, rest |-> <<>>]
    ELSE LET result == read(Head(paths))
         IN IF result.ok
            THEN [item |-> Some(result.value), panic |-> None, rest |-> Tail(paths)]
            ELSE [item |-> None, panic |-> Some(result.err), rest |-> Tail(paths)]

(***************************************************************************)
(* frontmatter.rs                                                          *)
(***************************************************************************)
\* Index of the last occurrence of pat in s that starts at or after i, 0 when none.
LastIndexOfStr(s, pat, i) ==
    LET starts == {j \in i..(Len(s) - Len(pat) + 1) : SubSeq(s, j, j + Len(pat) - 1) = pat}
    IN IF starts = {} THEN 0 ELSE CHOOSE j \in starts : \A k \in starts : k <= j

\* FRONTMATTER_REGEX (?ms)^---\n(.*)---\n? : the starts of a line where it matches.
FrontmatterStarts(text) ==
    {i \in 1..(Len(text) - 3) :
        /\ i = 1 \/ CharAt(text, i - 1) = "\n"
        /\ SubSeq(text, i, i + 3) = "---\n"
        /\ LastIndexOfStr(text, "---", i + 4) # 0}

\* FRONTMATTER_REGEX.find: the leftmost match, its greedy group running up to
\* the last --- of the text. None when there is no match.
FrontmatterMatch(text) ==
    IF FrontmatterStarts(text) = {} THEN None
    ELSE LET start == CHOOSE i \in FrontmatterStarts(text) :
                          \A j \in FrontmatterStarts(text) : i <= j
             close == LastIndexOfStr(text, "---", start + 4)
             end == IF close + 3 <= Len(text) /\ CharAt(text, close + 3) = "\n"
                    THEN close + 3 ELSE close + 2
         IN Some([group |-> SubSeq(text, start + 4, close - 1), end |-> end])

\* frontmatter.rs extract_front_matter_and_content: <<front_matter, content>>
extract_front_matter_and_content(text) ==
    IF FrontmatterMatch(text) = None THEN <<"", text>>
    ELSE <<Trim(FrontmatterMatch(text)[1].group),
           Trim(SubSeq(text, FrontmatterMatch(text)[1].end + 1, Len(text)))>>

\* The characters a YAML plain scalar cannot start with.
YamlIndicators == {"[", "]", "{", "}", "-", ":", "?", ",", "#", "&", "*", "!", "|", ">", "'",
                   "\"", "%", "@"}

\* A YAML plain scalar as serde resolves it: null, a boolean, an integer or a string.
YamlScalar(s) ==
    IF s \in {"", "~", "null"} THEN JNull
    ELSE IF s \in {"true", "false"} THEN JBool(s = "true")
    ELSE IF IsDigits(s) THEN JNum(ToInt(s))
    ELSE JStr(s)

IsPlain(s) == s = "" \/ (CharAt(s, 1) \notin YamlIndicators /\ ~Contains(s, ": "))

\* A YAML flow sequence of plain scalars, [a, b]; an unclosed one is an error.
YamlFlowSeq(s) ==
    IF Len(s) < 2 \/ CharAt(s, Len(s)) # "]" THEN Err("yaml")
    ELSE LET items == Split(SubSeq(s, 2, Len(s) - 1), ",")
         IN IF Trim(SubSeq(s, 2, Len(s) - 1)) = "" THEN Ok(JArr(<<>>))
            ELSE IF \A i \in 1..Len(items) : Trim(items[i]) # "" /\ IsPlain(Trim(items[i]))
                 THEN Ok(JArr([i \in 1..Len(items) |-> YamlScalar(Trim(items[i]))]))
            ELSE Err("yaml")

\* The value of a block mapping entry or a block sequence item.
YamlValue(s) ==
    IF s # "" /\ CharAt(s, 1) = "[" THEN YamlFlowSeq(s)
    ELSE IF IsPlain(s) THEN Ok(YamlScalar(s))
    ELSE Err("yaml")

\* A line "key: value" or "key:" of a block mapping.
EntryKey(line) ==
    IF Contains(line, ": ") THEN SubSeq(line, 1, IndexFrom(line, ":", 1) - 1)
    ELSE SubSeq(line, 1, Len(line) - 1)

EntryValue(line) ==
    IF Contains(line, ": ") THEN Trim(SubSeq(line, IndexFrom(line, ":", 1) + 1, Len(line)))
    ELSE ""

IsEntry(line) ==
    /\ line # ""
    /\ CharAt(line, 1) \notin YamlIndicators \cup {" "}
    /\ Contains(line, ": ") \/ CharAt(line, Len(line)) = ":"
    /\ IsPlain(EntryKey(line))

IsItem(line) == Len(line) >= 2 /\ SubSeq(line, 1, 2) = "- "

\* serde_yml::from_str::<json::Value> on the documents the model reads: the
\* empty document (null), a block mapping or block sequence of one-line plain
\* scalars and flow sequences, a flow sequence, and a plain scalar. A document
\* that mixes these, repeats a key or leaves a flow sequence open is an error.
yaml_from_str(text) ==
    LET lines == Split(text, "\n")
    IN IF Trim(text) = "" THEN Ok(JNull)
       ELSE IF \A i \in 1..Len(lines) : IsEntry(lines[i])
            THEN IF /\ \A i, j \in 1..Len(lines) :
                         i # j => EntryKey(lines[i]) # EntryKey(lines[j])
                    /\ \A i \in 1..Len(lines) : YamlValue(EntryValue(lines[i])).ok
                 THEN Ok(JObj([k \in {EntryKey(lines[i]) : i \in 1..Len(lines)} |->
                                YamlValue(EntryValue(
                                    lines[CHOOSE i \in 1..Len(lines) : EntryKey(lines[i]) = k])).value]))
                 ELSE Err("yaml")
       ELSE IF \A i \in 1..Len(lines) : IsItem(lines[i])
            THEN IF \A i \in 1..Len(lines) : YamlValue(Trim(SubSeq(lines[i], 3, Len(lines[i])))).ok
                 THEN Ok(JArr([i \in 1..Len(lines) |->
                                YamlValue(Trim(SubSeq(lines[i], 3, Len(lines[i])))).value]))
                 ELSE Err("yaml")
       ELSE IF Len(lines) = 1 /\ CharAt(text, 1) = "[" THEN YamlFlowSeq(text)
       ELSE IF \A i \in 1..Len(lines) : Trim(lines[i]) # "" /\ IsPlain(Trim(lines[i]))
            THEN Ok(YamlScalar(Join([i \in 1..Len(lines) |-> Trim(lines[i])], " ")))
       ELSE Err("yaml")

\* Doc::parse_frontmatter, were the parsed value merged into meta.
parse_frontmatter_merging(doc) ==
    LET extracted == extract_front_matter_and_content(doc.content)
        parsed == yaml_from_str(extracted[1])
    IN [doc EXCEPT !.meta = IF parsed.ok THEN merge(doc.meta, parsed.value) ELSE doc.meta,
                   !.content = extracted[2]]

\* Doc::parse_frontmatter
parse_frontmatter(doc) ==
    LET extracted == extract_front_matter_and_content(doc.content)
        parsed == yaml_from_str(extracted[1])
    IN [doc EXCEPT !.meta = IF parsed.ok THEN parsed.value ELSE doc.meta,
                   !.content = extracted[2]]

\* Doc::parse_and_uplift_frontmatter
parse_and_uplift_frontmatter(doc) == uplift_meta(parse_frontmatter(doc))

(***************************************************************************)
(* wikilink.rs                                                             *)
(***************************************************************************)
EmptyDocIndex == [k \in {} |-> DefaultDoc]

\* The WIKILINK regex \[\[([^\]]+)\]\] tried at position i: the position of the
\* last character of the match, 0 when there is no match at i.
WikilinkEnd(text, i) ==
    LET close == IndexFrom(text, "]", i + 2)
    IN IF /\ i + 1 <= Len(text)
          /\ SubSeq(text, i, i + 1) = "[["
          /\ close > i + 2
          /\ close + 1 <= Len(text)
          /\ CharAt(text, close + 1) = "]"
       THEN close + 1
       ELSE 0

\* str::trim_matches(|c| c == '[' || c == ']' || c == ' ')
RECURSIVE TrimBrackets(_)
TrimBrackets(s) ==
    IF s # "" /\ CharAt(s, 1) \in {"[", "]", " "} THEN TrimBrackets(SubSeq(s, 2, Len(s)))
    ELSE IF s # "" /\ CharAt(s, Len(s)) \in {"[", "]", " "}
         THEN TrimBrackets(SubSeq(s, 1, Len(s) - 1))
    ELSE s

\* A parse that takes the target of a link for its text.
parse_wikilink_showing_target(wikilink_str) ==
    LET inner == TrimBrackets(wikilink_str)
        bar == IndexFrom(inner, "|", 1)
        target == IF bar > 0 THEN Trim(SubSeq(inner, 1, bar - 1)) ELSE Trim(inner)
    IN [text |-> target, slug |-> to_slug(target)]

\* wikilink.rs parse_wikilink
parse_wikilink(wikilink_str) ==
    LET inner == TrimBrackets(wikilink_str)
        bar == IndexFrom(inner, "|", 1)
    IN IF bar > 0
       THEN [text |-> Trim(SubSeq(inner, bar + 1, Len(inner))),
             slug |-> to_slug(Trim(SubSeq(inner, 1, bar - 1)))]
       ELSE [text |-> Trim(inner), slug |-> to_slug(Trim(inner))]

\* The TRANSCLUDE regex ^\[\[([^\]]+)\]\]$ (no multi-line flag): the whole text
\* is one wikilink.
IsTransclude(text) == text # "" /\ WikilinkEnd(text, 1) = Len(text)

\* WIKILINK.replace_all with the closure of strip_wikilinks, from position i on.
RECURSIVE StripFrom(_, _)
StripFrom(text, i) ==
    IF i > Len(text) THEN ""
    ELSE IF WikilinkEnd(text, i) = 0 THEN CharAt(text, i) \o StripFrom(text, i + 1)
    ELSE parse_wikilink(SubSeq(text, i, WikilinkEnd(text, i))).text
         \o StripFrom(text, WikilinkEnd(text, i) + 1)

\* wikilink.rs strip_wikilinks
strip_wikilinks(text) == StripFrom(IF IsTransclude(text) THEN "" ELSE text, 1)

\* The context of the linked template
LinkContext(doc, wikilink) ==
    [k \in {"output_path", "title", "summary", "text", "slug"} |->
        CASE k = "output_path" -> doc.output_path
          [] k = "title" -> doc.title
          [] k = "summary" -> doc.summary
          [] k = "text" -> wikilink.text
          [] k = "slug" -> wikilink.slug]

\* The context of the no-link template
NolinkContext(wikilink) ==
    [k \in {"text", "slug"} |-> IF k = "text" THEN wikilink.text ELSE wikilink.slug]

\* What token_template::render can return, over the iteration orders of the parts.
Renders(template, parts) ==
    {render(template, parts, order) : order \in IterationOrders(template, parts)}

\* The closure of render_wikilinks_with_template on one match.
RenderWikilink(wikilink_str, wikilink_template, nolink_template, slug_to_doc_index) ==
    LET wikilink == parse_wikilink(wikilink_str)
    IN IF wikilink.slug \in DOMAIN slug_to_doc_index
       THEN Renders(wikilink_template, LinkContext(slug_to_doc_index[wikilink.slug], wikilink))
       ELSE Renders(nolink_template, NolinkContext(wikilink))

\* WIKILINK.replace_all with that closure, from position i on: the texts it can
\* return.
RECURSIVE RenderWikilinksFrom(_, _, _, _, _)
RenderWikilinksFrom(text, i, wikilink_template, nolink_template, slug_to_doc_index) ==
    LET starts == {j \in i..Len(text) : WikilinkEnd(text, j) # 0}
        start == CHOOSE j \in starts : \A k \in starts : j <= k
    IN IF starts = {} THEN {SubSeq(text, i, Len(text))}
       ELSE {SubSeq(text, i, start - 1) \o link \o rest :
               link \in RenderWikilink(SubSeq(text, start, WikilinkEnd(text, start)),
                                       wikilink_template, nolink_template, slug_to_doc_index),
               rest \in RenderWikilinksFrom(text, WikilinkEnd(text, start) + 1,
                                            wikilink_template, nolink_template,
                                            slug_to_doc_index)}

\* wikilink.rs render_wikilinks_with_template
render_wikilinks_with_template(text, wikilink_template, nolink_template, slug_to_doc_index) ==
    RenderWikilinksFrom(text, 1, wikilink_template, nolink_template, slug_to_doc_index)

\* Doc::render_wikilinks_with_template with the summary rewritten along with the
\* content.
DocRenderWikilinksWithTemplate_summarizing(doc, wikilink_template, nolink_template, slug_to_doc_index) ==
    {set_summary(set_content(doc, content), content) :
        content \in render_wikilinks_with_template(doc.content, wikilink_template,
                                                   nolink_template, slug_to_doc_index)}

\* Doc::render_wikilinks_with_template: the documents it can return.
DocRenderWikilinksWithTemplate(doc, wikilink_template, nolink_template, slug_to_doc_index) ==
    {set_content(doc, content) :
        content \in render_wikilinks_with_template(doc.content, wikilink_template,
                                                   nolink_template, slug_to_doc_index)}

\* Doc::render_wikilinks
render_wikilinks(doc, slug_to_doc_index) ==
    DocRenderWikilinksWithTemplate(doc,
        "<a class=\"wikilink\" href=\"{output_path}\">{text}</a>",
        "<span class=\"nolink\">{text}</span>", slug_to_doc_index)

\* Doc::get_title_slug
get_title_slug(doc) == to_slug(doc.title)

\* An insert that keeps the entry a key already has.
HashMapInsert_keeping(index, key, value) ==
    [k \in DOMAIN index \cup {key} |-> IF k \in DOMAIN index THEN index[k] ELSE value]

\* HashMap::insert
HashMapInsert(index, key, value) ==
    [k \in DOMAIN index \cup {key} |-> IF k = key THEN value ELSE index[k]]

\* HashMap::from_iter over (doc.get_title_slug(), doc)
RECURSIVE FromIter(_, _)
FromIter(index, docs) ==
    IF docs = <<>> THEN index
    ELSE FromIter(HashMapInsert(index, get_title_slug(Head(docs)), Head(docs)), Tail(docs))

\* WikilinkDocs::index_by_title_slug
index_by_title_slug(docs) == FromIter(EmptyDocIndex, docs)

(***************************************************************************)
(* The documents and arguments the runs are started with                   *)
(***************************************************************************)
Seqs(pool, n) == UNION {[1..k -> pool] : k \in 0..n}

\* Documents with ties under every sort key and a repeated id_path.
DocsPool ==
    { [draft("doc1.md") EXCEPT !.title = "B Doc", !.created = <<2023, 5, 15>>,
                               !.modified = <<2024, 1, 1>>],
      [draft("doc1.md") EXCEPT !.title = "A Doc", !.created = <<2023, 5, 15>>,
                               !.modified = <<2023, 1, 1>>],
      [draft("doc2.md") EXCEPT !.title = "B Doc", !.created = <<2022, 12, 31>>,
                               !.modified = <<2024, 1, 1>>, !.output_path = "out/x.html"],
      [draft("posts/a.md") EXCEPT !.title = "a doc", !.created = <<2024, 2, 29>>,
                                  !.output_path = "out/x.html"] }

\* Documents whose id_path has every component, no parent, or no extension.
PermalinkPool ==
    { set_created(draft("parent/test_file.md"), <<2023, 5, 15>>),
      set_created(draft("a/b/My Post.md"), <<2024, 1, 2>>),
      set_created(draft("test.md"), <<2023, 5, 15>>),
      set_created(draft("posts/notes"), <<2023, 5, 15>>) }

PermalinkTemplates ==
    { "{yyyy}/{mm}/{dd}/{stem}/index.html",
      ":yyyy/:stem",
      ":parents/:name",
      "{parent}/:slug.html" }

RenderTemplates ==
    { "Hello, :name! Your email is :email.",
      "This is a :test template.",
      ":parents/:name",
      "" }

RenderParts ==
    { EmptyParts,
      [k \in {"name"} |-> "Bob"],
      [k \in {"parent"} |-> "b"],
      [k \in {"name", "age"} |-> IF k = "name" THEN "Alice" ELSE "30"],
      [k \in {"name", "age"} |-> IF k = "name" THEN ":age" ELSE "30"],
      [k \in {"parents", "parent"} |-> IF k = "parents" THEN "a/b" ELSE "b"] }

Tags(terms) == JObj([k \in {"tags"} |-> JArr(terms)])

\* Documents with distinct id_paths and tag arrays that share, repeat and
\* respell terms; one array holds a number, one document has no meta.
TagsPool ==
    { set_meta(draft("a.md"), Tags(<<JStr("x"), JStr("y")>>)),
      set_meta(draft("b.md"), Tags(<<JStr("y")>>)),
      set_meta(draft("c.md"), Tags(<<JStr("z")>>)),
      set_meta(draft("d.md"), Tags(<<JStr("x"), JStr("y"), JStr("x")>>)),
      set_meta(draft("e.md"), Tags(<<JStr("News"), JNum(7), JStr("news")>>)),
      set_meta(draft("g.md"), Tags(<<JStr("x"), JStr("y")>>)),
      draft("about.md") }

\* Documents that share a term, respell it, carry a number, or carry no tags.
ArchivePool ==
    { set_meta(draft("posts/a.md"), Tags(<<JStr("news")>>)),
      set_meta(draft("posts/b.md"), Tags(<<JStr("news"), JStr("life")>>)),
      set_meta(draft("posts/e.md"), Tags(<<JStr("News"), JNum(7), JStr(" Life ")>>)),
      draft("pages/about.md") }

ArchiveTemplates == {"tags/:term/index.html", "{taxonomy}/{term}.html"}

\* The readings of the clock (chrono::Utc::now) an archive can be made at.
Nows == {<<2024, 1, 1>>, <<2024, 1, 2>>}

\* docs.render_wikilinks(&index).collect(): the vectors it can give.
RECURSIVE RenderWikilinksCollect(_, _)
RenderWikilinksCollect(docs, slug_to_doc_index) ==
    IF docs = <<>> THEN {<<>>}
    ELSE {<<doc>> \o rest :
            doc \in render_wikilinks(Head(docs), slug_to_doc_index),
            rest \in RenderWikilinksCollect(Tail(docs), slug_to_doc_index)}

\* render_wikilinks_between in one pass: every document is rendered against the
\* index of the documents up to it.
RECURSIVE render_wikilinks_between_one_pass(_)
render_wikilinks_between_one_pass(docs) ==
    IF docs = <<>> THEN {<<>>}
    ELSE {front \o <<doc>> :
            front \in render_wikilinks_between_one_pass(SubSeq(docs, 1, Len(docs) - 1)),
            doc \in render_wikilinks(docs[Len(docs)], index_by_title_slug(docs))}

\* WikilinkDocs::render_wikilinks_between: the stream is collected, the index is
\* built from a clone of all of it, and every document is rendered against it.
render_wikilinks_between(docs) == RenderWikilinksCollect(docs, index_by_title_slug(docs))

\* A text in pieces: plain text, [[a]], [[a|b]] or, padded, [[a | b]].
Plain(text) == [kind |-> "plain", a |-> text, b |-> ""]
Link(target) == [kind |-> "link", a |-> target, b |-> ""]
LinkAs(target, text) == [kind |-> "link", a |-> target, b |-> text]
LinkPadded(target, text) == [kind |-> "padded", a |-> target, b |-> text]

SegSyntax(seg) ==
    CASE seg.kind = "plain" -> seg.a
      [] seg.kind = "link" /\ seg.b = "" -> "[[" \o seg.a \o "]]"
      [] seg.kind = "link" /\ seg.b # "" -> "[[" \o seg.a \o "|" \o seg.b \o "]]"
      [] seg.kind = "padded" -> "[[" \o seg.a \o " | " \o seg.b \o "]]"

RECURSIVE Syntax(_)
Syntax(segs) == IF segs = <<>> THEN "" ELSE SegSyntax(Head(segs)) \o Syntax(Tail(segs))

\* Texts with inline links, a text that is one bare link, and one without links.
WikiSegs ==
    { <<Link("Page Name"), Plain(" and "), LinkAs("b", "The B"), Plain(".")>>,
      <<LinkAs("a", "B"), Plain(" text")>>,
      <<Plain("x "), LinkPadded("A", "B")>>,
      <<Link("Missing")>>,
      <<Plain("no links")>> }

WikiContents == {Syntax(segs) : segs \in WikiSegs}

WikiDoc(id_path, title, output_path, segs) ==
    [draft(id_path) EXCEPT !.title = title, !.output_path = output_path,
                           !.summary = "On " \o title, !.content = Syntax(segs)]

\* Documents some of whose titles have the same slug.
WikiPool ==
    { WikiDoc("a.md", "A", "a.html", <<LinkAs("a", "B"), Plain(" text")>>),
      WikiDoc("notes/page.md", "Page Name", "notes/page.html",
              <<Link("Page Name"), Plain(" and "), LinkAs("b", "The B"), Plain(".")>>),
      WikiDoc("old/page.md", "page name", "old/page.html", <<Link("Missing")>>),
      WikiDoc("b.md", "B", "b.html", <<Plain("x "), LinkPadded("A", "B")>>),
      WikiDoc("c.md", "a", "c.html", <<Plain("no links")>>) }

\* The templates of Doc::render_wikilinks, and a pair in the token syntax of
\* token_template::render.
WikilinkTemplates ==
    { << "<a class=\"wikilink\" href=\"{output_path}\">{text}</a>",
         "<span class=\"nolink\">{text}</span>" >>,
      << "<a href=':output_path' title=':title'>:text</a>",
         "<s class=':slug'>:text :title</s>" >> }

\* The arguments the transforms of a chain are called with.
OutputPathArg == "out/x.html"
ExtensionArg == "html"
PermalinkArg == "{yyyy}/:slug.html"
TemplateArg == "page.html"
SetMetaArg == JObj([k \in {"permalink"} |-> JStr("meta.html")])
MergeMetaArg == JObj([k \in {"template", "draft"} |-> IF k = "draft" THEN JNull ELSE JStr("meta.html")])
WikilinkIndexArg == index_by_title_slug(<<WikiDoc("a.md", "A", "a.html", <<Plain("a")>>)>>)
RelatedArg == <<StubFrom(draft("b.md"))>>

\* The transforms of a document, by name.
Transforms ==
    {"set_output_path", "set_extension", "set_permalink", "set_template", "auto_template",
     "auto_summary", "set_meta", "merge_meta", "uplift_meta", "parse_frontmatter",
     "parse_and_uplift_frontmatter", "render_wikilinks", "set_meta_related"}

\* The documents one transform can turn a document into.
Apply(op, doc) ==
    CASE op = "set_output_path" -> {set_output_path(doc, OutputPathArg)}
      [] op = "set_extension" -> {set_extension(doc, ExtensionArg)}
      [] op = "set_permalink" ->
           {set_permalink(doc, PermalinkArg, order) :
               order \in IterationOrders(PermalinkArg, PermalinkParts(doc))}
      [] op = "set_template" -> {set_template(doc, TemplateArg)}
      [] op = "auto_template" -> {auto_template(doc)}
      [] op = "auto_summary" -> {auto_summary(doc)}
      [] op = "set_meta" -> {set_meta(doc, SetMetaArg)}
      [] op = "merge_meta" -> {merge_meta(doc, MergeMetaArg)}
      [] op = "uplift_meta" -> {uplift_meta(doc)}
      [] op = "parse_frontmatter" -> {parse_frontmatter(doc)}
      [] op = "parse_and_uplift_frontmatter" -> {parse_and_uplift_frontmatter(doc)}
      [] op = "render_wikilinks" -> render_wikilinks(doc, WikilinkIndexArg)
      [] op = "set_meta_related" -> {set_meta_related(doc, RelatedArg)}

\* A chain of lazy maps: every document goes through the closures in order.
RECURSIVE ApplyChain(_, _)
ApplyChain(chain, docs) ==
    IF chain = <<>> THEN docs
    ELSE ApplyChain(Tail(chain), UNION {Apply(Head(chain), d) : d \in docs})

\* Documents as Doc::read returns them and as they come deserialized from
\* stdin, with a meta an earlier run has set.
TransformPool ==
    { read("posts/test.md").value,
      read("notes/list.md").value,
      [draft("test.md") EXCEPT !.content = "Plain <b>text</b>.",
                               !.meta = JObj([k \in {"draft"} |-> JStr("yes")])],
      [draft("pages/company/about.md") EXCEPT
          !.content = "---\ntags: [a\n---\nBody",
          !.meta = JObj([k \in {"draft"} |-> JStr("yes")])] }

\* The paths handed to docs::read: the files of the site and one that is none.
ReadPaths == DOMAIN Files \cup {"missing.md"}

\* JSON values to merge: scalars, an array and objects up to three levels deep,
\* among them the two of test_merge_meta.
JsonValues ==
    << JNull,
       JNum(1),
       JStr("x"),
       JArr(<<JNum(1)>>),
       JObj(EmptyMap),
       JObj([k \in {"a"} |-> JNum(1)]),
       JObj([k \in {"a"} |-> JNull]),
       JObj([k \in {"a", "b"} |-> IF k = "a" THEN JNum(1) ELSE JObj([c \in {"c"} |-> JNum(2)])]),
       JObj([k \in {"b"} |-> JObj([d \in {"d"} |-> JNum(3)])]),
       JObj([k \in {"b"} |-> JObj([c \in {"c"} |-> JNull])]),
       JObj([k \in {"b"} |-> JObj([c \in {"c", "d"} |-> IF c = "c" THEN JNull ELSE JNum(3)])]),
       JObj([k \in {"b"} |-> JNum(5)]),
       JObj([k \in {"a"} |-> JObj([b \in {"b"} |-> JObj([c \in {"c"} |-> JNull])])]),
       JObj([k \in {"a"} |-> JObj([b \in {"b"} |-> JObj([c \in {"c"} |-> JNum(2)])])]) >>

QueryTerms == {"x", "y", "news", "none"}

NoParams ==
    [key |-> "", asc |-> TRUE, n |-> 0, template |-> "", parts |-> EmptyParts, keys |-> <<>>,
     template_path |-> None, nolink_template |-> "", chain |-> <<>>,
     target |-> JNull, patch |-> JNull]

(***************************************************************************)
(* The state machine: a source, one stage, and a consumer that pulls       *)
(***************************************************************************)
InitWithLen(pool, n) ==
    /\ source \in Seqs(pool, n)
    /\ upstream = source
    /\ stage = "source"
    /\ params = NoParams
    /\ buffer = <<>>
    /\ seen = {}
    /\ emitted = <<>>
    /\ tax_index = EmptyIndex
    /\ union = <<>>
    /\ rendered = ""
    /\ slug_index = EmptyDocIndex
    /\ stderr = <<>>

InitWith(pool) == InitWithLen(pool, MaxLen)

\* docs.dedupe(): a lazy filter over the stream, with an empty seen set.
CallDedupe ==
    /\ stage = "source"
    /\ stage' = "dedupe"
    /\ seen' = {}
    /\ UNCHANGED <<source, upstream, params, buffer, emitted, tax_index, union, rendered, slug_index, stderr>>

\* Filter::next over the dedupe predicate, had dedupe collected its upstream
\* before handing out its first document.
RECURSIVE FilterNext_draining(_, _)
FilterNext_draining(seen_paths, docs) ==
    IF docs = <<>> THEN [item |-> None, seen |-> seen_paths, rest |-> <<>>]
    ELSE IF dedupe_keeps(seen_paths, Head(docs))
         THEN [item |-> Some(Head(docs)),
               seen |-> seen_paths \cup {docs[i].id_path : i \in 1..Len(docs)},
               rest |-> <<>>]
    ELSE FilterNext_draining(seen_paths \cup {Head(docs).id_path}, Tail(docs))

\* Filter::next over the dedupe predicate: pulls upstream until a document passes.
RECURSIVE FilterNext(_, _)
FilterNext(seen_paths, docs) ==
    IF docs = <<>> THEN [item |-> None, seen |-> seen_paths, rest |-> <<>>]
    ELSE IF dedupe_keeps(seen_paths, Head(docs))
         THEN [item |-> Some(Head(docs)), seen |-> seen_paths \cup {Head(docs).id_path},
               rest |-> Tail(docs)]
    ELSE FilterNext(seen_paths \cup {Head(docs).id_path}, Tail(docs))

\* The consumer pulls the next document out of dedupe.
DedupeNext ==
    /\ stage = "dedupe"
    /\ upstream # <<>>
    /\ LET r == FilterNext(seen, upstream)
       IN /\ seen' = r.seen
          /\ upstream' = r.rest
          /\ emitted' = emitted \o r.item
    /\ UNCHANGED <<source, stage, params, buffer, tax_index, union, rendered, slug_index, stderr>>

\* docs.sorted_by(key, asc): collects the whole stream, sorts, returns into_iter().
CallSortedBy(key, asc) ==
    /\ stage = "source"
    /\ stage' = "sorted_by"
    /\ params' = [NoParams EXCEPT !.key = key, !.asc = asc]
    /\ buffer' = DocsSortedBy(upstream, key, asc)
    /\ upstream' = <<>>
    /\ UNCHANGED <<source, seen, emitted, tax_index, union, rendered, slug_index, stderr>>

\* docs.most_recent(n): sorted_by(Created, false).take(n)
CallMostRecent(n) ==
    /\ stage = "source"
    /\ stage' = "most_recent"
    /\ params' = [NoParams EXCEPT !.key = "created", !.asc = FALSE, !.n = n]
    /\ buffer' = most_recent_sorted(upstream)
    /\ upstream' = <<>>
    /\ UNCHANGED <<source, seen, emitted, tax_index, union, rendered, slug_index, stderr>>

\* The consumer pulls the next document of the sorted vector; Take counts down.
IntoIterNext ==
    /\ stage \in {"sorted_by", "most_recent"}
    /\ buffer # <<>>
    /\ stage = "most_recent" => params.n > 0
    /\ emitted' = Append(emitted, Head(buffer))
    /\ buffer' = Tail(buffer)
    /\ params' = IF stage = "most_recent" THEN [params EXCEPT !.n = @ - 1] ELSE params
    /\ UNCHANGED <<source, upstream, stage, seen, tax_index, union, rendered, slug_index, stderr>>

\* docs.set_permalink(template): a lazy map over the stream.
CallSetPermalink(template) ==
    /\ stage = "source"
    /\ stage' = "set_permalink"
    /\ params' = [NoParams EXCEPT !.template = template]
    /\ UNCHANGED <<source, upstream, buffer, seen, emitted, tax_index, union, rendered, slug_index, stderr>>

\* The consumer pulls the next document through Doc::set_permalink.
SetPermalinkNext ==
    /\ stage = "set_permalink"
    /\ upstream # <<>>
    /\ \E order \in IterationOrders(params.template, PermalinkParts(Head(upstream))) :
          emitted' = Append(emitted, set_permalink(Head(upstream), params.template, order))
    /\ upstream' = Tail(upstream)
    /\ UNCHANGED <<source, stage, params, buffer, seen, tax_index, union, rendered, slug_index, stderr>>

\* token_template::render(template, &parts)
RenderCall(template, parts) ==
    /\ stage = "source"
    /\ stage' = "render"
    /\ params' = [NoParams EXCEPT !.template = template, !.parts = parts]
    /\ \E order \in IterationOrders(template, parts) :
          rendered' = render(template, parts, order)
    /\ UNCHANGED <<source, upstream, buffer, seen, emitted, tax_index, union, slug_index, stderr>>

\* docs.index_by_taxonomy(key): consumes the whole stream.
IndexByTaxonomy(key) ==
    /\ stage = "source"
    /\ stage' = "indexed"
    /\ params' = [NoParams EXCEPT !.key = key]
    /\ tax_index' = index_by_taxonomy(upstream, key)
    /\ upstream' = <<>>
    /\ UNCHANGED <<source, buffer, seen, emitted, union, rendered, slug_index, stderr>>

\* get_union_for_index_keys(&index, &keys)
UnionForKeys(keys) ==
    /\ stage = "indexed"
    /\ stage' = "union"
    /\ params' = [params EXCEPT !.keys = keys]
    /\ union' = get_union_for_index_keys(tax_index, keys)
    /\ UNCHANGED <<source, upstream, buffer, seen, emitted, tax_index, rendered, slug_index, stderr>>

\* The second pass: the documents are mapped through
\* set_meta_related_from_taxonomy_index with the index built in the first.
CallSetRelated ==
    /\ stage = "indexed"
    /\ stage' = "related"
    /\ upstream' = source
    /\ UNCHANGED <<source, params, buffer, seen, emitted, tax_index, union, rendered, slug_index, stderr>>

\* The consumer pulls the next document through the related lookup.
SetRelatedNext ==
    /\ stage = "related"
    /\ upstream # <<>>
    /\ emitted' = Append(emitted,
                         set_meta_related_from_taxonomy_index(Head(upstream), params.key,
                                                              tax_index))
    /\ upstream' = Tail(upstream)
    /\ UNCHANGED <<source, stage, params, buffer, seen, tax_index, union, rendered, slug_index, stderr>>

\* docs.generate_taxonomy_archives(key, output_path_template, template_path):
\* builds the index from the whole stream, then maps lazily over its entries.
CallGenerateTaxonomyArchives(key, output_path_template, template_path) ==
    /\ stage = "source"
    /\ stage' = "archives"
    /\ params' = [NoParams EXCEPT !.key = key, !.template = output_path_template,
                                  !.template_path = template_path]
    /\ tax_index' = index_by_taxonomy(upstream, key)
    /\ upstream' = <<>>
    /\ UNCHANGED <<source, buffer, seen, emitted, union, rendered, slug_index, stderr>>

\* The consumer pulls the next archive: hash_map::IntoIter yields the entries
\* in any order, and the closure reads the clock.
ArchivesNext ==
    /\ stage = "archives"
    /\ \E term \in DOMAIN tax_index, now \in Nows :
          /\ \E order \in IterationOrders(params.template, ArchiveParts(params.key, term)) :
                emitted' = Append(emitted,
                                  ArchiveDoc(params.key, term, tax_index[term], params.template,
                                             params.template_path, now, order))
          /\ tax_index' = [k \in DOMAIN tax_index \ {term} |-> tax_index[k]]
    /\ UNCHANGED <<source, upstream, stage, params, buffer, seen, union, rendered, slug_index, stderr>>

\* docs.index_by_title_slug(): consumes the whole stream.
IndexByTitleSlug ==
    /\ stage = "source"
    /\ stage' = "slug_indexed"
    /\ slug_index' = index_by_title_slug(upstream)
    /\ upstream' = <<>>
    /\ UNCHANGED <<source, params, buffer, seen, emitted, tax_index, union, rendered, stderr>>

\* docs.render_wikilinks_with_template(wikilink_template, nolink_template, &index):
\* a lazy map over the documents, with the index built before (or an empty one).
CallRenderWikilinksWithTemplate(wikilink_template, nolink_template) ==
    /\ stage \in {"source", "slug_indexed"}
    /\ stage' = "render_wikilinks"
    /\ params' = [NoParams EXCEPT !.template = wikilink_template,
                                  !.nolink_template = nolink_template]
    /\ upstream' = source
    /\ UNCHANGED <<source, buffer, seen, emitted, tax_index, union, rendered, slug_index, stderr>>

\* The consumer pulls the next document through Doc::render_wikilinks_with_template.
RenderWikilinksNext ==
    /\ stage = "render_wikilinks"
    /\ upstream # <<>>
    /\ \E content \in render_wikilinks_with_template(Head(upstream).content, params.template,
                                                      params.nolink_template, slug_index) :
          emitted' = Append(emitted, [Head(upstream) EXCEPT !.content = content])
    /\ upstream' = Tail(upstream)
    /\ UNCHANGED <<source, stage, params, buffer, seen, tax_index, union, rendered, slug_index,
                   stderr>>

\* strip_wikilinks(text)
StripWikilinks(text) ==
    /\ stage = "source"
    /\ stage' = "strip"
    /\ params' = [NoParams EXCEPT !.template = text]
    /\ rendered' = strip_wikilinks(text)
    /\ UNCHANGED <<source, upstream, buffer, seen, emitted, tax_index, union, slug_index, stderr>>

\* A map combinator (docs.set_extension(..), docs.parse_frontmatter(), ...) is put
\* on the stream: nothing is pulled, the closure joins the chain.
CallTransform(op) ==
    /\ stage \in {"source", "map"}
    /\ emitted = <<>>
    /\ Len(params.chain) < MaxChain
    /\ stage' = "map"
    /\ params' = [params EXCEPT !.chain = Append(@, op)]
    /\ UNCHANGED <<source, upstream, buffer, seen, emitted, tax_index, union, rendered,
                   slug_index, stderr>>

\* The consumer pulls the next document through the chain of maps.
MapNext ==
    /\ stage = "map"
    /\ upstream # <<>>
    /\ \E doc \in ApplyChain(params.chain, {Head(upstream)}) : emitted' = Append(emitted, doc)
    /\ upstream' = Tail(upstream)
    /\ UNCHANGED <<source, stage, params, buffer, seen, tax_index, union, rendered, slug_index,
                   stderr>>

\* docs::read(paths): a lazy map of Doc::read over the paths, nothing is read yet.
CallRead ==
    /\ stage = "source"
    /\ stage' = "read"
    /\ UNCHANGED <<source, upstream, params, buffer, seen, emitted, tax_index, union, rendered,
                   slug_index, stderr>>

\* results.dump_errors_to_stderr(): a lazy filter_map, nothing is read yet.
CallDumpErrorsToStderr ==
    /\ stage = "read"
    /\ stage' = "dump_errors"
    /\ UNCHANGED <<source, upstream, params, buffer, seen, emitted, tax_index, union, rendered,
                   slug_index, stderr>>

\* The consumer pulls the next document out of dump_errors_to_stderr.
DumpErrorsNext ==
    /\ stage = "dump_errors"
    /\ upstream # <<>>
    /\ LET pulled == dump_errors_to_stderr(upstream)
       IN /\ stderr' = stderr \o pulled.errors
          /\ emitted' = emitted \o pulled.item
          /\ upstream' = pulled.rest
    /\ UNCHANGED <<source, stage, params, buffer, seen, tax_index, union, rendered, slug_index>>

\* docs.render_wikilinks_between(): collects the whole stream, renders every
\* document and returns into_iter() of the rendered vector.
CallRenderWikilinksBetween ==
    /\ stage = "source"
    /\ stage' = "render_wikilinks_between"
    /\ slug_index' = index_by_title_slug(upstream)
    /\ buffer' \in render_wikilinks_between(upstream)
    /\ upstream' = <<>>
    /\ UNCHANGED <<source, params, seen, emitted, tax_index, union, rendered, stderr>>

\* The consumer pulls the next document of the rendered vector.
BetweenNext ==
    /\ stage = "render_wikilinks_between"
    /\ buffer # <<>>
    /\ emitted' = Append(emitted, Head(buffer))
    /\ buffer' = Tail(buffer)
    /\ UNCHANGED <<source, upstream, stage, params, seen, tax_index, union, rendered,
                   slug_index, stderr>>

\* Doc::draft("test.md").set_meta(target).merge_meta(patch), as in test_merge_meta.
MergeMetaCall(target, patch) ==
    /\ stage = "source"
    /\ stage' = "merge_meta"
    /\ params' = [NoParams EXCEPT !.target = target, !.patch = patch]
    /\ emitted' = <<merge_meta(set_meta(draft("test.md"), target), patch)>>
    /\ UNCHANGED <<source, upstream, buffer, seen, tax_index, union, rendered, slug_index,
                   stderr>>

\* docs.remove_with_id_path(id_path): a lazy filter, nothing is pulled yet.
CallRemoveWithIdPath(id_path) ==
    /\ stage = "source"
    /\ stage' = "remove_with_id_path"
    /\ params' = [NoParams EXCEPT !.template = id_path]
    /\ UNCHANGED <<source, upstream, buffer, seen, emitted, tax_index, union, rendered,
                   slug_index, stderr>>

\* docs.filter_matching(glob_pattern)
CallFilterMatching(glob_pattern) ==
    /\ stage = "source"
    /\ stage' = "filter_matching"
    /\ params' = [NoParams EXCEPT !.template = glob_pattern]
    /\ UNCHANGED <<source, upstream, buffer, seen, emitted, tax_index, union, rendered,
                   slug_index, stderr>>

\* docs.remove_drafts()
CallRemoveDrafts ==
    /\ stage = "source"
    /\ stage' = "remove_drafts"
    /\ UNCHANGED <<source, upstream, params, buffer, seen, emitted, tax_index, union,
                   rendered, slug_index, stderr>>

\* docs.remove_index()
CallRemoveIndex ==
    /\ stage = "source"
    /\ stage' = "remove_index"
    /\ UNCHANGED <<source, upstream, params, buffer, seen, emitted, tax_index, union,
                   rendered, slug_index, stderr>>

\* The consumer pulls the next document out of the filter.
FilterDocsNext ==
    /\ stage \in {"remove_with_id_path", "filter_matching", "remove_drafts", "remove_index"}
    /\ upstream # <<>>
    /\ LET r == FilterPull(stage, params.template, upstream)
       IN /\ upstream' = r.rest
          /\ emitted' = emitted \o r.item
    /\ UNCHANGED <<source, stage, params, buffer, seen, tax_index, union, rendered,
                   slug_index, stderr>>

\* to_slug(s)
ToSlugCall(s) ==
    /\ stage = "source"
    /\ stage' = "to_slug"
    /\ params' = [NoParams EXCEPT !.template = s]
    /\ rendered' = to_slug(s)
    /\ UNCHANGED <<source, upstream, buffer, seen, emitted, tax_index, union, slug_index,
                   stderr>>

\* results.panic_at_first_error(): a lazy map, nothing is read yet.
CallPanicAtFirstError ==
    /\ stage = "read"
    /\ stage' = "panic_at_first_error"
    /\ UNCHANGED <<source, upstream, params, buffer, seen, emitted, tax_index, union, rendered,
                   slug_index, stderr>>

\* One turn of the sink's loop (Docs::write_stdio, Docs::write): it pulls the next
\* document out of panic_at_first_error and writes it out before it pulls again;
\* a panic ends the run with the error on stderr.
PanicAtFirstErrorNext ==
    /\ stage = "panic_at_first_error"
    /\ upstream # <<>>
    /\ LET pulled == panic_at_first_error(upstream)
       IN /\ emitted' = emitted \o pulled.item
          /\ stderr' = stderr \o pulled.panic
          /\ stage' = IF pulled.panic # None THEN "panicked" ELSE stage
          /\ upstream' = pulled.rest
    /\ UNCHANGED <<source, params, buffer, seen, tax_index, union, rendered, slug_index>>

\* The combinators of docs.rs
Init == InitWith(DocsPool)

Next ==
    \/ CallDedupe
    \/ DedupeNext
    \/ \E key \in SortKeys, asc \in BOOLEAN : CallSortedBy(key, asc)
    \/ \E n \in 0..(MaxLen + 1) : CallMostRecent(n)
    \/ IntoIterNext

Spec == Init /\ [][Next]_vars

\* The permalink templater
InitPermalink == InitWith(PermalinkPool)

NextPermalink ==
    \/ \E template \in PermalinkTemplates : CallSetPermalink(template)
    \/ SetPermalinkNext
    \/ \E template \in RenderTemplates, parts \in RenderParts : RenderCall(template, parts)

SpecPermalink == InitPermalink /\ [][NextPermalink]_vars

\* The taxonomy index
InitTags == InitWith(TagsPool)

NextTags ==
    \/ IndexByTaxonomy("tags")
    \/ \E keys \in Seqs(QueryTerms, MaxKeys) : UnionForKeys(keys)
    \/ CallSetRelated
    \/ SetRelatedNext

SpecTags == InitTags /\ [][NextTags]_vars

\* The taxonomy archives
InitArchives == InitWith(ArchivePool)

NextArchives ==
    \/ \E output_path_template \in ArchiveTemplates, template_path \in {None, Some("archive.html")} :
          CallGenerateTaxonomyArchives("tags", output_path_template, template_path)
    \/ ArchivesNext

SpecArchives == InitArchives /\ [][NextArchives]_vars

\* The wikilink resolver
InitWiki == InitWith(WikiPool)

NextWiki ==
    \/ IndexByTitleSlug
    \/ \E templates \in WikilinkTemplates :
          CallRenderWikilinksWithTemplate(templates[1], templates[2])
    \/ RenderWikilinksNext
    \/ \E text \in WikiContents : StripWikilinks(text)

SpecWiki == InitWiki /\ [][NextWiki]_vars

\* The stages that see the whole stream
NextGlobal ==
    \/ CallDedupe
    \/ DedupeNext
    \/ \E key \in SortKeys, asc \in BOOLEAN : CallSortedBy(key, asc)
    \/ IntoIterNext
    \/ IndexByTaxonomy("tags")
    \/ CallRenderWikilinksBetween
    \/ BetweenNext

SpecGlobal == InitWiki /\ [][NextGlobal]_vars

\* Merging a patch into a meta
InitMerge == InitWithLen({}, 0)

NextMerge ==
    \E i \in 1..Len(JsonValues), j \in 1..Len(JsonValues) :
        MergeMetaCall(JsonValues[i], JsonValues[j])

SpecMerge == InitMerge /\ [][NextMerge]_vars

\* The characters of the strings to slug: letters of both cases, a digit, a
\* space, a dash, and punctuation in and out of NON_SLUG_CHARS.
SlugChars == {"A", "b", "1", " ", "-", "!", ".", "_"}

\* The strings over SlugChars of at most n characters.
RECURSIVE SlugInputs(_)
SlugInputs(n) ==
    IF n = 0 THEN {""}
    ELSE LET shorter == SlugInputs(n - 1)
         IN shorter \cup {s \o c : s \in shorter, c \in SlugChars}

\* Slugging a string
NextSlug == stage = "source" /\ \E s \in SlugInputs(MaxSlugLen) : ToSlugCall(s)

SpecSlug == InitMerge /\ [][NextSlug]_vars

\* Documents to filter: drafts, index files and others, at the top and in
\* directories, one in a directory whose name starts with an underscore.
FilterPool ==
    { set_title(draft(p), "Doc") :
        p \in {"doc1.md", "_draft.md", "index.md", "posts/doc1.md", "posts/_draft.md",
               "posts/index.md", "_posts/a.md", "index/a.md"} }

FilterIdPaths == {"doc1.md", "posts/doc1.md"}

FilterGlobs == {"posts/*", "*.md", "doc?.md", "*index*"}

\* Filtering a stream
InitFilter == InitWith(FilterPool)

NextFilter ==
    \/ \E id_path \in FilterIdPaths : CallRemoveWithIdPath(id_path)
    \/ \E glob_pattern \in FilterGlobs : CallFilterMatching(glob_pattern)
    \/ CallRemoveDrafts
    \/ CallRemoveIndex
    \/ FilterDocsNext

SpecFilter == InitFilter /\ [][NextFilter]_vars

\* The transforms of one document, chained
InitDoc == InitWithLen(TransformPool, MaxDocs)

NextDoc ==
    \/ \E op \in Transforms : CallTransform(op)
    \/ MapNext

SpecDoc == InitDoc /\ [][NextDoc]_vars

\* Reading paths and dropping the errors
InitRead == InitWith(ReadPaths)

NextRead ==
    \/ CallRead
    \/ CallDumpErrorsToStderr
    \/ DumpErrorsNext

SpecRead == InitRead /\ [][NextRead]_vars

\* Reading paths and stopping at the first error
NextPanic ==
    \/ CallRead
    \/ CallPanicAtFirstError
    \/ PanicAtFirstErrorNext

SpecPanic == InitRead /\ [][NextPanic]_vars

(***************************************************************************)
(* Properties                                                              *)
(***************************************************************************)
Range(s) == {s[i] : i \in 1..Len(s)}

Count(s, x) == Cardinality({i \in 1..Len(s) : s[i] = x})

\* The elements of s at the positions in I, from position i on, in order.
RECURSIVE PickFrom(_, _, _)
PickFrom(s, I, i) ==
    IF i > Len(s) THEN <<>>
    ELSE (IF i \in I THEN <<s[i]>> ELSE <<>>) \o PickFrom(s, I, i + 1)

Pick(s, I) == PickFrom(s, I, 1)

\* The positions of s that hold the first document with their id_path.
FirstOccurrences(s) ==
    {i \in 1..Len(s) : \A j \in 1..(i - 1) : s[j].id_path # s[i].id_path}

\* What the upstream iterator has yielded so far.
Consumed == SubSeq(source, 1, Len(source) - Len(upstream))

\* Everything a collecting stage yields: what was pulled, then what is left.
Output == emitted \o buffer

\* C1: dedupe yields exactly one document per distinct id_path of its input, that
\* document is the first one of the input with the id_path, and the kept
\* documents come in input order.
C1_DedupeKeepsFirstOccurrences ==
    stage = "dedupe" =>
        /\ \A i, j \in 1..Len(emitted) :
              i # j => emitted[i].id_path # emitted[j].id_path
        /\ {d.id_path : d \in Range(emitted)} = {d.id_path : d \in Range(Consumed)}
        /\ emitted = Pick(Consumed, FirstOccurrences(Consumed))

\* C1 witness: a whole input was deduplicated and a later document with an
\* id_path seen before, but another title, was dropped.
C1_Witness ==
    /\ stage = "dedupe"
    /\ upstream = <<>>
    /\ Len(emitted) >= 2
    /\ \E i, j \in 1..Len(source) :
          /\ i < j
          /\ source[i].id_path = source[j].id_path
          /\ source[i].title # source[j].title
          /\ source[j] \notin Range(emitted)

\* C2: sorted_by is stable for every key and both directions: the documents
\* that compare equal under the key come out in the order they went in.
C2_SortedByStable ==
    stage = "sorted_by" =>
        \A d \in Range(source) :
            Pick(Output, {i \in 1..Len(Output) : KeyCmp(params.key, Output[i], d) = 0})
              = Pick(source, {i \in 1..Len(source) : KeyCmp(params.key, source[i], d) = 0})

\* C2 witness: a descending sort that moved documents and whose input holds two
\* different documents with equal keys.
C2_Witness ==
    /\ stage = "sorted_by"
    /\ ~params.asc
    /\ buffer = <<>>
    /\ emitted # source
    /\ \E i, j \in 1..Len(source) :
          /\ i < j
          /\ source[i] # source[j]
          /\ KeyCmp(params.key, source[i], source[j]) = 0

\* C3: sorted_by returns a permutation of its input whose keys are
\* non-decreasing when asc is true and non-increasing when asc is false.
C3_SortedByPermutationInOrder ==
    stage = "sorted_by" =>
        /\ Len(Output) = Len(source)
        /\ \A d \in Range(source) \cup Range(Output) : Count(Output, d) = Count(source, d)
        /\ \A i, j \in 1..Len(Output) :
              i < j => IF params.asc
                       THEN KeyCmp(params.key, Output[i], Output[j]) <= 0
                       ELSE KeyCmp(params.key, Output[i], Output[j]) >= 0

\* C3 witness: a descending sort by title of three documents, fully pulled, that
\* changed their order.
C3_Witness ==
    /\ stage = "sorted_by"
    /\ params.key = "title"
    /\ ~params.asc
    /\ buffer = <<>>
    /\ Len(emitted) >= 3
    /\ emitted # source

\* The n most_recent was called with: Take has counted down once per pull.
MostRecentN == params.n + Len(emitted)

MostRecentDone == buffer = <<>> \/ params.n = 0

\* C4: most_recent(n) returns min(n, length of input) documents, sorted by
\* created descending, each created no earlier than every document not returned.
C4_MostRecent ==
    stage = "most_recent" =>
        /\ MostRecentDone => Len(emitted) = Min(MostRecentN, Len(source))
        /\ \A d \in Range(emitted) : Count(emitted, d) <= Count(source, d)
        /\ \A i, j \in 1..Len(emitted) :
              i < j => DateCmp(emitted[i].created, emitted[j].created) >= 0
        /\ MostRecentDone =>
              \A d \in Range(source) :
                  Count(emitted, d) < Count(source, d) =>
                      \A e \in Range(emitted) : DateCmp(e.created, d.created) >= 0

\* C4 witness: most_recent returned some documents and left out an older one.
C4_Witness ==
    /\ stage = "most_recent"
    /\ MostRecentDone
    /\ Len(emitted) >= 2
    /\ Len(emitted) < Len(source)
    /\ \E d \in Range(source) :
          /\ d \notin Range(emitted)
          /\ \E e \in Range(emitted) : DateCmp(e.created, d.created) > 0

\* The template with every {key} token of a part replaced by the part.
RECURSIVE BraceRender(_, _, _)
BraceRender(template, parts, keys) ==
    IF keys = <<>> THEN template
    ELSE BraceRender(Replace(template, "{" \o Head(keys) \o "}", parts[Head(keys)]), parts,
                     Tail(keys))

\* C5: set_permalink replaces every {key} token of the template that names a
\* part of the document by the part's value and stores the result in
\* output_path; {yyyy}/{mm}/{dd}/{stem}/index.html on parent/test_file.md of
\* 2023-05-15 gives 2023/05/15/test_file/index.html.
C5_PermalinkReplacesBraceTokens ==
    stage = "set_permalink" =>
        \A i \in 1..Len(emitted) :
            /\ get_permalink_template_parts(source[i]) # None =>
                  emitted[i].output_path
                    = BraceRender(params.template, get_permalink_template_parts(source[i])[1],
                                  SetToSeq(PartKeys))
            /\ ( /\ params.template = "{yyyy}/{mm}/{dd}/{stem}/index.html"
                 /\ source[i].id_path = "parent/test_file.md"
                 /\ source[i].created = <<2023, 5, 15>> )
               => emitted[i].output_path = "2023/05/15/test_file/index.html"

IdentChars == "0123456789ABCDEFGHIJKLMNOPQRSTUVWXYZ_abcdefghijklmnopqrstuvwxyz"

\* The key of the token that starts at the ":" at position i: the identifier
\* characters that follow it.
TokenKeyAt(template, i) ==
    LET stop == IF \E j \in (i + 1)..Len(template) : ~Contains(IdentChars, CharAt(template, j))
                THEN CHOOSE j \in (i + 1)..Len(template) :
                        /\ ~Contains(IdentChars, CharAt(template, j))
                        /\ \A k \in (i + 1)..(j - 1) : Contains(IdentChars, CharAt(template, k))
                ELSE Len(template) + 1
    IN SubSeq(template, i + 1, stop - 1)

TokenKeys(template) ==
    {TokenKeyAt(template, i) : i \in {j \in 1..Len(template) : CharAt(template, j) = ":"}}

\* C6: render leaves every token whose key is absent from the parts map
\* verbatim: a template none of whose tokens has a key in the map comes out
\* unchanged.
C6_AbsentTokensVerbatim ==
    (stage = "render" /\ TokenKeys(params.template) \cap DOMAIN params.parts = {})
        => rendered = params.template

\* An id_path at the root (no parent segment) or whose file name has no extension.
Unresolvable(id_path) ==
    \/ ~Contains(id_path, "/")
    \/ ~Contains(SubSeq(id_path, LastIndexOf(id_path, "/") + 1, Len(id_path)), ".")

\* C7: for a document whose permalink parts cannot all be resolved,
\* set_permalink does not fail: every pulled document comes out, and such a
\* document comes out with the template, rendered against an empty parts map,
\* as its output_path and nothing else changed.
C7_UnresolvedPartsFallBack ==
    stage = "set_permalink" =>
        /\ Len(emitted) + Len(upstream) = Len(source)
        /\ \A i \in 1..Len(emitted) :
              Unresolvable(source[i].id_path) =>
                  emitted[i] = [source[i] EXCEPT !.output_path = params.template]

\* C7 witness: a root-level document and one without extension went through a
\* template that names parts both of them have.
C7_Witness ==
    /\ stage = "set_permalink"
    /\ params.template = ":parents/:name"
    /\ \E i, j \in 1..Len(emitted) :
          /\ source[i].id_path = "test.md"
          /\ source[j].id_path = "posts/notes"
          /\ emitted[i].output_path = ":parents/:name"

DistinctIdPaths(docs) ==
    \A i, j \in 1..Len(docs) : i # j => docs[i].id_path # docs[j].id_path

NoRepeatedIdPath(stubs) ==
    \A i, j \in 1..Len(stubs) : i # j => stubs[i].id_path # stubs[j].id_path

\* C8: after index_by_taxonomy over documents with distinct id_paths, every
\* bucket holds a document at most once, also when its tag array yields the
\* same normalized term several times.
C8_BucketHoldsDocumentOnce ==
    (stage = "indexed" /\ DistinctIdPaths(source)) =>
        \A term \in DOMAIN tax_index : NoRepeatedIdPath(tax_index[term])

\* C9: get_union_for_index_keys returns the union of the buckets of the terms
\* with no id_path twice, in first-seen order, also when two documents share
\* two or more terms (here: on an index none of whose buckets repeats a document).
C9_UnionHasNoDuplicates ==
    ( /\ stage = "union"
      /\ DistinctIdPaths(source)
      /\ \A term \in DOMAIN tax_index : NoRepeatedIdPath(tax_index[term]) )
    => /\ NoRepeatedIdPath(union)
       /\ union = Pick(FlatMapBuckets(tax_index, params.keys),
                       FirstOccurrences(FlatMapBuckets(tax_index, params.keys)))

\* The id_paths of the stubs under "related" in a document's meta.
RelatedIdPaths(doc) ==
    IF JGet(doc.meta, "related") = None THEN <<>>
    ELSE LET stubs == JGet(doc.meta, "related")[1].v
         IN [i \in 1..Len(stubs) |-> stubs[i].v["id_path"].v]

\* C10: the related list of a document never contains the document itself;
\* with A (tags x, y), B (tags y) and C (tags z) indexed, the related documents
\* of A are exactly {B} and those of C are none.
C10_RelatedExcludesSelf ==
    stage = "related" =>
        \A i \in 1..Len(emitted) :
            /\ emitted[i].id_path \notin Range(RelatedIdPaths(emitted[i]))
            /\ {d.id_path : d \in Range(source)} = {"a.md", "b.md", "c.md"} =>
                  /\ emitted[i].id_path = "a.md" => Range(RelatedIdPaths(emitted[i])) = {"b.md"}
                  /\ emitted[i].id_path = "c.md" => Range(RelatedIdPaths(emitted[i])) = {}

\* The normalized terms a document carries under a taxonomy key.
TermsOf(doc, key) ==
    IF JGet(doc.meta, key) # None /\ JGet(doc.meta, key)[1].t = "arr"
    THEN LET terms == JGet(doc.meta, key)[1].v
         IN {to_tag(terms[i].v) : i \in {j \in 1..Len(terms) : terms[j].t = "str"}}
    ELSE {}

AllTerms(docs, key) == UNION {TermsOf(d, key) : d \in Range(docs)}

\* The members an archive lists under "items" in its meta.
ArchiveItems(archive) == Range(archive.meta.v["items"].v)

ArchiveFor(term) == {i \in 1..Len(emitted) : emitted[i].title = term}

\* C11: generate_taxonomy_archives yields exactly one archive per distinct
\* normalized term of the input, and the archive's items are the stubs of
\* exactly the input documents that carry the term; for posts/a.md (news),
\* posts/b.md (news, life) and pages/about.md (no tags) one archive is for
\* news, it lists a and b, and no archive lists about.
C11_OneArchivePerTerm ==
    stage = "archives" =>
        /\ \A i, j \in 1..Len(emitted) : i # j => emitted[i].title # emitted[j].title
        /\ {emitted[i].title : i \in 1..Len(emitted)} \cup DOMAIN tax_index
              = AllTerms(source, params.key)
        /\ \A i \in 1..Len(emitted) :
              ArchiveItems(emitted[i])
                = {StubJson(StubFrom(d)) :
                     d \in {x \in Range(source) : emitted[i].title \in TermsOf(x, params.key)}}
        /\ ( /\ Range(source) = {d \in ArchivePool :
                                   d.id_path \in {"posts/a.md", "posts/b.md", "pages/about.md"}}
             /\ tax_index = EmptyIndex )
           => /\ Cardinality(ArchiveFor("news")) = 1
              /\ \A i \in ArchiveFor("news") :
                    {item.v["id_path"].v : item \in ArchiveItems(emitted[i])}
                      = {"posts/a.md", "posts/b.md"}
              /\ \A i \in 1..Len(emitted) :
                    "pages/about.md" \notin {item.v["id_path"].v : item \in ArchiveItems(emitted[i])}

\* C11 witness: every archive of posts/a.md, posts/b.md and pages/about.md was
\* pulled: one for news and one for life.
C11_Witness ==
    /\ stage = "archives"
    /\ tax_index = EmptyIndex
    /\ {d.id_path : d \in Range(source)} = {"posts/a.md", "posts/b.md", "pages/about.md"}
    /\ {emitted[i].title : i \in 1..Len(emitted)} = {"news", "life"}
    /\ \E i \in 1..Len(emitted) : Cardinality(ArchiveItems(emitted[i])) = 2

\* C12: index_by_title_slug has exactly one entry per distinct title slug of
\* the input, and a slug that several documents share maps to the one that
\* comes last in the input.
C12_LastWriterWins ==
    stage = "slug_indexed" =>
        /\ DOMAIN slug_index = {to_slug(source[i].title) : i \in 1..Len(source)}
        /\ \A i \in 1..Len(source) :
              (\A j \in (i + 1)..Len(source) :
                   to_slug(source[j].title) # to_slug(source[i].title))
              => slug_index[to_slug(source[i].title)] = source[i]

\* C12 witness: two different documents with the same title slug were indexed
\* together with a third, and the index holds the later of the two.
C12_Witness ==
    /\ stage = "slug_indexed"
    /\ Cardinality(DOMAIN slug_index) = 2
    /\ \E i, j \in 1..Len(source) :
          /\ i < j
          /\ source[i].id_path # source[j].id_path
          /\ to_slug(source[i].title) = to_slug(source[j].title)
          /\ slug_index[to_slug(source[i].title)] = source[j]

\* A template with every token of the context, in either token syntax ({key}
\* or :key), replaced by the context's value.
Fill(template, context) ==
    BraceRender(RenderIn(template, context, SetToSeq(DOMAIN context)), context,
                SetToSeq(DOMAIN context))

\* What a text in pieces is to become: a link whose target's slug is in the
\* index becomes the filled linked template, any other the filled no-link one.
RECURSIVE ExpectedRender(_, _, _, _)
ExpectedRender(segs, wikilink_template, nolink_template, index) ==
    IF segs = <<>> THEN ""
    ELSE LET seg == Head(segs)
             wikilink == [text |-> IF seg.b = "" THEN seg.a ELSE seg.b, slug |-> to_slug(seg.a)]
         IN (IF seg.kind = "plain" THEN seg.a
             ELSE IF wikilink.slug \in DOMAIN index
                  THEN Fill(wikilink_template, LinkContext(index[wikilink.slug], wikilink))
             ELSE Fill(nolink_template, NolinkContext(wikilink)))
            \o ExpectedRender(Tail(segs), wikilink_template, nolink_template, index)

\* C13: render_wikilinks_with_template never fails; every wikilink whose slug
\* is in the index is replaced by the linked template filled with output_path,
\* title, summary of the indexed document and the link's text and slug, every
\* other wikilink (all of them under an empty index) by the no-link template
\* filled with text and slug.
C13_WikilinksFilled ==
    stage = "render_wikilinks" =>
        /\ Len(emitted) + Len(upstream) = Len(source)
        /\ \A i \in 1..Len(emitted) : \A segs \in WikiSegs :
              Syntax(segs) = source[i].content =>
                  emitted[i].content
                    = ExpectedRender(segs, params.template, params.nolink_template, slug_index)

\* The display text of a text in pieces.
RECURSIVE PlainText(_)
PlainText(segs) ==
    IF segs = <<>> THEN ""
    ELSE (IF Head(segs).kind = "plain" \/ Head(segs).b = "" THEN Head(segs).a ELSE Head(segs).b)
         \o PlainText(Tail(segs))

\* A text that is nothing but one wikilink, a transclude marker.
BareLink(segs) == Len(segs) = 1 /\ segs[1].kind # "plain"

\* C14: strip_wikilinks, which takes no index, replaces every inline wikilink by
\* its display text (the part after the bar, else the target) and leaves the
\* text outside the links unchanged; [[a|B]] text becomes B text.
C14_StripToDisplayText ==
    stage = "strip" =>
        /\ \A segs \in WikiSegs :
              (Syntax(segs) = params.template /\ ~BareLink(segs)) => rendered = PlainText(segs)
        /\ params.template = "[[a|B]] text" => rendered = "B text"

\* C14 witness: [[a|B]] text was stripped to B text.
C14_Witness ==
    /\ stage = "strip"
    /\ params.template = "[[a|B]] text"
    /\ rendered = "B text"

\* The transform put on the stream last, and the documents source[i] can have
\* become before it.
LastOp == params.chain[Len(params.chain)]

PreDocs(i) == ApplyChain(SubSeq(params.chain, 1, Len(params.chain) - 1), {source[i]})

\* The document d with content and meta taken from e.
WithContentAndMeta(d, e) == [d EXCEPT !.content = e.content, !.meta = e.meta]

\* C15: parse_frontmatter on a document whose content has no frontmatter block
\* leaves content unchanged and meta as it was, whatever meta held.
C15_NoFrontmatterNoChange ==
    (stage = "map" /\ params.chain # <<>> /\ LastOp = "parse_frontmatter") =>
        \A i \in 1..Len(emitted) : \A d \in PreDocs(i) :
            (WithContentAndMeta(emitted[i], d) = d /\ ~Contains(d.content, "---"))
            => emitted[i] = d

\* Frontmatter blocks that are not YAML.
BadBlocks == {"---\ntags: [a\n---\n"}

\* C16: when the frontmatter block fails to parse, parse_frontmatter leaves meta
\* and content as they were: the block stays in content.
C16_FailedParseNoChange ==
    (stage = "map" /\ params.chain # <<>> /\ LastOp = "parse_frontmatter") =>
        \A i \in 1..Len(emitted) : \A d \in PreDocs(i) :
            (WithContentAndMeta(emitted[i], d) = d
             /\ \E block \in BadBlocks : StartsWith(d.content, block))
            => emitted[i] = d

\* C17: after a parse step (Doc::read, parse_frontmatter or
\* parse_and_uplift_frontmatter on what was read or drafted) meta is a JSON
\* object, never null, a scalar or an array.
C17_MetaIsObject ==
    (stage = "map" /\ params.chain # <<>>
     /\ LastOp \in {"parse_frontmatter", "parse_and_uplift_frontmatter"}) =>
        \A i \in 1..Len(emitted) : emitted[i].meta.t = "obj"

\* C18: id_path is immutable: whatever transforms a document goes through, it
\* comes out with the id_path it was created with.
C18_IdPathImmutable ==
    stage = "map" => \A i \in 1..Len(emitted) : emitted[i].id_path = source[i].id_path

\* C18 witness: a document went through set_meta and uplift_meta, which moved
\* its output_path to the permalink of its meta.
C18_Witness ==
    /\ stage = "map"
    /\ params.chain = <<"set_meta", "uplift_meta">>
    /\ emitted # <<>>
    /\ emitted[1].output_path = "meta.html"
    /\ source[1].output_path # "meta.html"

\* The template auto-assignment gives an id_path: <parent directory>.html, or
\* default.html without a parent directory.
ExpectedTemplate(id_path) ==
    IF ~Contains(id_path, "/") THEN "default.html"
    ELSE Split(id_path, "/")[Len(Split(id_path, "/")) - 1] \o ".html"

C20_OnlyOkInOrder ==
    stage = "dump_errors" =>
        LET oks == SelectSeq(Consumed, LAMBDA path : path \in DOMAIN Files)
            errs == SelectSeq(Consumed, LAMBDA path : path \notin DOMAIN Files)
        IN /\ Len(emitted) = Len(oks)
           /\ \A i \in 1..Len(oks) :
                 /\ emitted[i].id_path = oks[i]
                 /\ emitted[i].content = Files[oks[i]].content
           /\ Len(stderr) = Len(errs)
           /\ (upstream # <<>> /\ emitted # <<>>) =>
                 Consumed[Len(Consumed)] = emitted[Len(emitted)].id_path

\* C20 witness: a path that is no file stood between two files; both documents
\* came out, in order, and one line went to stderr.
C20_Witness ==
    /\ stage = "dump_errors"
    /\ source = <<"posts/test.md", "missing.md", "about.md">>
    /\ upstream = <<>>
    /\ Len(emitted) = 2
    /\ emitted[1].id_path = "posts/test.md"
    /\ emitted[2].id_path = "about.md"
    /\ stderr = <<"Error: io">>

CountOf(s, sub) ==
    Cardinality({i \in 1..(Len(s) - Len(sub) + 1) : SubSeq(s, i, i + Len(sub) - 1) = sub})

\* The links of a text in pieces whose target is the title of one of the
\* documents, by slug.
LinksInto(segs, docs) ==
    {k \in 1..Len(segs) :
        /\ segs[k].kind # "plain"
        /\ \E j \in 1..Len(docs) : to_slug(docs[j].title) = to_slug(segs[k].a)}

\* C23: render_wikilinks_between resolves in two passes: a link is resolved
\* (rendered with the linked template) when its slug is the title slug of any
\* document of the run, before or after the linking document in the stream or
\* that document itself, and every other link gets the no-link template.
C23_TwoPassResolution ==
    stage = "render_wikilinks_between" =>
        \A i \in 1..Len(emitted) : \A segs \in WikiSegs :
            Syntax(segs) = source[i].content =>
                /\ CountOf(emitted[i].content, "<a class=\"wikilink\"")
                     = Cardinality(LinksInto(segs, source))
                /\ CountOf(emitted[i].content, "<span class=\"nolink\"")
                     = Cardinality({k \in 1..Len(segs) : segs[k].kind # "plain"})
                       - Cardinality(LinksInto(segs, source))

\* C23 witness: b.md links to the title of a.md, which comes after it in the
\* stream, and a.md links to its own title; both links came out resolved.
C23_Witness ==
    /\ stage = "render_wikilinks_between"
    /\ Len(source) = 2
    /\ source[1].id_path = "b.md"
    /\ source[2].id_path = "a.md"
    /\ Len(emitted) = 2
    /\ CountOf(emitted[1].content, "<a class=\"wikilink\"") = 1
    /\ CountOf(emitted[2].content, "<a class=\"wikilink\"") = 1

\* C29: render_wikilinks_between gives as many documents as it got, in the same
\* order, each changed in its content at most; the index it resolves against
\* stays the index of the input while the documents are handed out.
C29_BetweenChangesContentOnly ==
    stage = "render_wikilinks_between" =>
        LET out == emitted \o buffer
        IN /\ Len(out) = Len(source)
           /\ \A i \in 1..Len(out) : [out[i] EXCEPT !.content = source[i].content] = source[i]
           /\ DOMAIN slug_index = {to_slug(source[j].title) : j \in 1..Len(source)}
           /\ \A slug \in DOMAIN slug_index :
                 \E j \in 1..Len(source) : slug_index[slug] = source[j]

\* C29 witness: three documents went in and came out, the content of one of
\* them rewritten.
C29_Witness ==
    /\ stage = "render_wikilinks_between"
    /\ Len(source) = 3
    /\ Len(emitted) = 3
    /\ \E i \in 1..3 : emitted[i].content # source[i].content

\* A merge result r of target a and patch b keeps the keys of a the patch does
\* not name, holds no key the patch gives null, and below every other key of
\* the patch is again such a result.
RECURSIVE IsMergePatch(_, _, _)
IsMergePatch(a, b, r) ==
    IF b.t # "obj" THEN r = b
    ELSE /\ r.t = "obj"
         /\ \A k \in DOMAIN b.v :
               IF b.v[k].t = "null" THEN k \notin DOMAIN r.v
               ELSE /\ k \in DOMAIN r.v
                    /\ IsMergePatch(IF a.t = "obj" /\ k \in DOMAIN a.v THEN a.v[k] ELSE JNull,
                                    b.v[k], r.v[k])
         /\ a.t = "obj" =>
               \A k \in DOMAIN a.v \ DOMAIN b.v : k \in DOMAIN r.v /\ r.v[k] = a.v[k]
         /\ DOMAIN r.v \subseteq DOMAIN b.v \cup (IF a.t = "obj" THEN DOMAIN a.v ELSE {})

\* C24: json::merge is an RFC 7396 merge: target keys the patch does not name
\* are kept, objects are merged recursively, a patch value that is no object
\* replaces the target value, and no key the patch gives null is in the result
\* at that path, at any depth, whether or not the target had the path.
C24_MergeIsRfc7396 ==
    stage = "merge_meta" => IsMergePatch(params.target, params.patch, emitted[1].meta)

\* Frontmatter blocks that are a YAML mapping, each with the map it stands for.
MapBlocks ==
    << <<"---\ntitle: Meta Title\ntemplate: custom.html\n---\n",
         JObj([k \in {"title", "template"} |->
                 IF k = "title" THEN JStr("Meta Title") ELSE JStr("custom.html")])>> >>

\* C25 as stated: parse_frontmatter merges the parsed map into meta, so a key
\* meta already had and the block does not mention is still there, with the
\* same value, after the call.
C25_OldKeysKept ==
    (stage = "map" /\ params.chain # <<>> /\ LastOp = "parse_frontmatter") =>
        \A i \in 1..Len(emitted) : \A d \in PreDocs(i) : \A b \in 1..Len(MapBlocks) :
            (WithContentAndMeta(emitted[i], d) = d
             /\ StartsWith(d.content, MapBlocks[b][1]) /\ d.meta.t = "obj")
            => \A k \in DOMAIN d.meta.v :
                  ~Contains(MapBlocks[b][1], k \o ":")
                  => /\ emitted[i].meta.t = "obj"
                     /\ k \in DOMAIN emitted[i].meta.v
                     /\ emitted[i].meta.v[k] = d.meta.v[k]

\* C25: parse_frontmatter on a document whose frontmatter block is a YAML
\* mapping replaces meta by that mapping: afterwards meta holds exactly the
\* keys and values of the block, and no key it held before.
C25_ParsedMapReplacesMeta ==
    (stage = "map" /\ params.chain # <<>> /\ LastOp = "parse_frontmatter") =>
        \A i \in 1..Len(emitted) : \A d \in PreDocs(i) : \A b \in 1..Len(MapBlocks) :
            (WithContentAndMeta(emitted[i], d) = d /\ StartsWith(d.content, MapBlocks[b][1]))
            => emitted[i].meta = MapBlocks[b][2]

\* C25 witness: a document read with its frontmatter block got a permalink in
\* its meta, then parse_frontmatter: the block's keys are its meta, the
\* permalink is gone.
C25_Witness ==
    /\ stage = "map"
    /\ params.chain = <<"set_meta", "parse_frontmatter">>
    /\ \E i \in 1..Len(emitted) :
          /\ source[i].id_path = "posts/test.md"
          /\ emitted[i].meta = MapBlocks[1][2]
          /\ "permalink" \notin DOMAIN emitted[i].meta.v

\* C26 as stated: a slug holds only lowercase letters, digits and dashes.
C26_OnlyLowerDigitsDashes ==
    stage = "to_slug" =>
        \A i \in 1..Len(rendered) :
            Contains("abcdefghijklmnopqrstuvwxyz0123456789-", CharAt(rendered, i))

\* What one character of the trimmed input becomes in the slug.
SlugOfChar(c) ==
    IF c = " " THEN "-"
    ELSE IF Contains("[](){}<>:,;?!^&%$#@'\"|*~", c) THEN ""
    ELSE IF c = "A" THEN "a"
    ELSE c

RECURSIVE SlugOfChars(_, _, _)
SlugOfChars(s, i, j) ==
    IF i > j THEN "" ELSE SlugOfChar(CharAt(s, i)) \o SlugOfChars(s, i + 1, j)

\* C26: to_slug drops the spaces around the string, lowercases it, turns
\* every space left into a dash and removes the characters of NON_SLUG_CHARS;
\* every other character, a dot, an underscore or a dash among them, stays.
C26_SlugIsCharwise ==
    stage = "to_slug" =>
        LET s == params.template
            inner == {i \in 1..Len(s) : CharAt(s, i) # " "}
        IN IF inner = {} THEN rendered = ""
           ELSE rendered =
                  SlugOfChars(s, CHOOSE i \in inner : \A j \in inner : i <= j,
                                 CHOOSE i \in inner : \A j \in inner : j <= i)

\* C26 witness: a string with an uppercase letter, a space, a dot and an
\* exclamation mark became a slug that keeps the dot.
C26_Witness ==
    /\ stage = "to_slug"
    /\ params.template = "A .!"
    /\ rendered = "a-."

\* Whether the filter of the stage is to let a document with this id_path
\* through, read off the id_path itself.
Satisfies(p) ==
    CASE stage = "remove_with_id_path" -> p # params.template
      [] stage = "remove_drafts" -> p \notin {"_draft.md", "posts/_draft.md"}
      [] stage = "remove_index" -> p \notin {"index.md", "posts/index.md"}
      [] stage = "filter_matching" ->
           CASE params.template = "posts/*" -> Len(p) >= 6 /\ SubSeq(p, 1, 6) = "posts/"
             [] params.template = "*.md" -> Len(p) >= 3 /\ SubSeq(p, Len(p) - 2, Len(p)) = ".md"
             [] params.template = "doc?.md" -> p = "doc1.md"
             [] params.template = "*index*" -> Contains(p, "index")

\* C27: a filter combinator hands out exactly the documents pulled so far that
\* satisfy its rule, unmodified and in input order: remove_with_id_path all
\* but those with the given id_path, filter_matching those whose id_path
\* matches the glob, remove_drafts all but those whose file name starts with
\* an underscore, remove_index all but those whose file stem is index.
C27_FiltersKeepExactlyTheSatisfying ==
    stage \in {"remove_with_id_path", "filter_matching", "remove_drafts", "remove_index"} =>
        LET Test(d) == Satisfies(d.id_path)
        IN emitted = SelectSeq(Consumed, Test)

\* C27 witness: remove_drafts went through a stream of three: it dropped the
\* draft in posts and kept the document in _posts and the one after.
C27_Witness ==
    /\ stage = "remove_drafts"
    /\ upstream = <<>>
    /\ Len(source) = 3
    /\ source[1].id_path = "posts/_draft.md"
    /\ source[2].id_path = "_posts/a.md"
    /\ Len(emitted) = 2
    /\ emitted[1] = source[2]
    /\ emitted[2] = source[3]

\* C28: token_template::render is deterministic: the result is the same for
\* every order in which the parts can be visited, also when one key is a
\* prefix of another and when a value holds text that looks like a token.
C28_RenderOrderIndependent ==
    stage = "render" =>
        \A order \in Perms(DOMAIN params.parts) :
            rendered = render(params.template, params.parts, order)

\* C30: the archives of one generate_taxonomy_archives call whose output path
\* template holds the {term} token have pairwise distinct id_path and
\* output_path.
C30_ArchivePathsDistinct ==
    (stage = "archives" /\ Contains(params.template, "{term}")) =>
        \A i, j \in 1..Len(emitted) :
            i # j => /\ emitted[i].id_path # emitted[j].id_path
                     /\ emitted[i].output_path # emitted[j].output_path

====
